---- MODULE Spec2Model ----
(***************************************************************************)
(* Model of the UC processor of risk-analyser: the month normalizer        *)
(* (config/settings.py), the header/column locator, the month-column       *)
(* mapper and the variance aggregation engine (src/process_uc.py).         *)
(*                                                                         *)
(* Cell texts are TLA+ strings; the text routines work on their sequence   *)
(* of characters.  Monetary amounts are integers counting units of        *)
(* 10^-Scale, so that round_monetary has digits to round away.             *)
(***************************************************************************)
EXTENDS Integers, Sequences, FiniteSets, TLC

VARIABLES
    df,              \* the cleaned grid: a sequence of rows of cells
    pc,              \* position of process_uc_file
    budget_head_col, \* located column or None
    vendor_role_col,
    cost_head_col,
    month_map,       \* MonthKey -> [plan, claims, d365, raw_headers]
    month_names,     \* sorted(month_map.keys())
    data_start_row,
    row_i,           \* loop variable of the row scan
    output_data,     \* monthly_data, cumulative_data, budget_lines, grand_totals
    error,           \* the exception that left process_uc_file, or None
    nm_text,         \* argument of a stand-alone normalize_month call
    nm_result        \* its result, "pending" before the call

vars == <<df, pc, budget_head_col, vendor_role_col, cost_head_col,
          month_map, month_names, data_start_row, row_i, output_data, error,
          nm_text, nm_result>>

None == "None"

-----------------------------------------------------------------------------
(* Characters and strings                                                  *)

Chars(s) == [i \in 1..Len(s) |-> SubSeq(s, i, i)]

RECURSIVE Join(_)
Join(cs) == IF cs = <<>> THEN "" ELSE Head(cs) \o Join(Tail(cs))

Digits == {"0", "1", "2", "3", "4", "5", "6", "7", "8", "9"}

LowerLetters == {"a", "b", "c", "d", "e", "f", "g", "h", "i", "j", "k", "l", "m",
                 "n", "o", "p", "q", "r", "s", "t", "u", "v", "w", "x", "y", "z"}

UpperToLower == [c \in {"A", "B", "C", "D", "E", "F", "G", "H", "I", "J", "K", "L", "M",
                        "N", "O", "P", "Q", "R", "S", "T", "U", "V", "W", "X", "Y", "Z"} |->
    CASE c = "A" -> "a" [] c = "B" -> "b" [] c = "C" -> "c" [] c = "D" -> "d"
      [] c = "E" -> "e" [] c = "F" -> "f" [] c = "G" -> "g" [] c = "H" -> "h"
      [] c = "I" -> "i" [] c = "J" -> "j" [] c = "K" -> "k" [] c = "L" -> "l"
      [] c = "M" -> "m" [] c = "N" -> "n" [] c = "O" -> "o" [] c = "P" -> "p"
      [] c = "Q" -> "q" [] c = "R" -> "r" [] c = "S" -> "s" [] c = "T" -> "t"
      [] c = "U" -> "u" [] c = "V" -> "v" [] c = "W" -> "w" [] c = "X" -> "x"
      [] c = "Y" -> "y" [] c = "Z" -> "z"]

\* str.lower()
Lower(cs) == [i \in 1..Len(cs) |->
                 IF cs[i] \in DOMAIN UpperToLower THEN UpperToLower[cs[i]] ELSE cs[i]]

IsSpace(c) == c = " "

\* str.strip()
RECURSIVE LStrip(_)
LStrip(cs) == IF cs # <<>> /\ IsSpace(Head(cs)) THEN LStrip(Tail(cs)) ELSE cs

RECURSIVE RStrip(_)
RStrip(cs) == IF cs # <<>> /\ IsSpace(cs[Len(cs)])
              THEN RStrip(SubSeq(cs, 1, Len(cs) - 1)) ELSE cs

Strip(cs) == RStrip(LStrip(cs))

\* prefix.startswith: cs starts with pre
StartsWith(cs, pre) == Len(pre) <= Len(cs) /\ SubSeq(cs, 1, Len(pre)) = pre

\* Python's  kw in text  on strings
Contains(cs, kw) == \E i \in 1..(Len(cs) - Len(kw) + 1) : SubSeq(cs, i, i + Len(kw) - 1) = kw

\* str.zfill(2) of a one- or two-digit token
ZFill2(cs) == IF Len(cs) < 2 THEN <<"0">> \o cs ELSE cs

-----------------------------------------------------------------------------
(* Regular-expression primitives used by normalize_month                   *)

\* the classes \d, [a-z] and [\s\-/]
IsDigit(c)  == c \in Digits
IsAlpha(c)  == c \in LowerLetters
IsDateSep(c) == c \in {" ", "-", "/"}

\* end (exclusive) of the maximal run of characters of a class starting at i
RECURSIVE RunEnd(_, _, _)
RunEnd(cs, i, cls) ==
    IF i <= Len(cs) /\ ( \/ cls = "d" /\ IsDigit(cs[i])
                         \/ cls = "a" /\ IsAlpha(cs[i])
                         \/ cls = "s" /\ IsDateSep(cs[i]) )
    THEN RunEnd(cs, i + 1, cls) ELSE i

Min(a, b) == IF a < b THEN a ELSE b

-----------------------------------------------------------------------------
(* Month Normalizer: config/settings.py                                    *)

MONTH_ABBREVIATIONS ==
    << <<"jan", "01">>, <<"january", "01">>, <<"feb", "02">>, <<"february", "02">>,
       <<"mar", "03">>, <<"march", "03">>, <<"apr", "04">>, <<"april", "04">>,
       <<"may", "05">>, <<"jun", "06">>, <<"june", "06">>, <<"jul", "07">>,
       <<"july", "07">>, <<"aug", "08">>, <<"august", "08">>, <<"sep", "09">>,
       <<"sept", "09">>, <<"september", "09">>, <<"oct", "10">>, <<"october", "10">>,
       <<"nov", "11">>, <<"november", "11">>, <<"dec", "12">>, <<"december", "12">> >>

\* a regular expression that found no match
NoMatch == [ok |-> FALSE]

\* the groups of the iso_pattern match whose month digits start at m
IsoGroups(cs, m) ==
    [ok    |-> TRUE,
     year  |-> SubSeq(cs, 1, 4),
     month |-> SubSeq(cs, m, Min(RunEnd(cs, m, "d"), m + 2) - 1)]

\* iso_pattern  ^(\d{4})[\s\-/]+(\d{1,2}), the separators ending before m
IsoAt(cs, m) ==
    IF /\ Len(cs) >= 6
       /\ \A i \in 1..4 : IsDigit(cs[i])
       /\ m > 5
       /\ m <= Len(cs)
       /\ IsDigit(cs[m])
    THEN IsoGroups(cs, m) ELSE NoMatch

\* re.search(iso_pattern, date_str)
IsoMatch(cs) == IsoAt(cs, RunEnd(cs, 5, "s"))

\* ([a-z]+)[\s\-/]*(\d{2,4}) matches starting at position i
MonthYearAt(cs, i) ==
    /\ IsAlpha(cs[i])
    /\ RunEnd(cs, RunEnd(cs, RunEnd(cs, i, "a"), "s"), "d")
         >= RunEnd(cs, RunEnd(cs, i, "a"), "s") + 2

\* the groups of the month_year_pattern match that starts at i, with the
\* letters ending at j and the digits starting at k
MonthYearGroups(cs, i, j, k) ==
    [ok         |-> TRUE,
     month_text |-> SubSeq(cs, i, j - 1),
     year_text  |-> SubSeq(cs, k, Min(RunEnd(cs, k, "d"), k + 4) - 1)]

\* the least element of a non-empty set of positions
Leftmost(starts) == CHOOSE a \in starts : \A b \in starts : a <= b

MonthYearFrom(cs, i) ==
    MonthYearGroups(cs, i, RunEnd(cs, i, "a"), RunEnd(cs, RunEnd(cs, i, "a"), "s"))

\* re.search(month_year_pattern, date_str): leftmost match, greedy groups
MonthYearMatch(cs) ==
    IF {i \in 1..Len(cs) : MonthYearAt(cs, i)} = {} THEN NoMatch
    ELSE MonthYearFrom(cs, Leftmost({i \in 1..Len(cs) : MonthYearAt(cs, i)}))

\* (\d{1,2})[\s\-/]+(\d{2,4}) matches at i with a first group of n digits
NumericAt(cs, i, n) ==
    /\ i + n - 1 <= Len(cs)
    /\ \A a \in i..(i + n - 1) : IsDigit(cs[a])
    /\ RunEnd(cs, i + n, "s") > i + n
    /\ RunEnd(cs, RunEnd(cs, i + n, "s"), "d") >= RunEnd(cs, i + n, "s") + 2

\* the groups of the numeric_pattern match at i with a first group of n
\* digits and the year digits starting at k
NumericGroups(cs, i, n, k) ==
    [ok        |-> TRUE,
     month     |-> SubSeq(cs, i, i + n - 1),
     year_text |-> SubSeq(cs, k, Min(RunEnd(cs, k, "d"), k + 4) - 1)]

\* the first group is greedy: two digits where that matches, else one
NumericFromN(cs, i, n) == NumericGroups(cs, i, n, RunEnd(cs, i + n, "s"))

NumericFrom(cs, i) == NumericFromN(cs, i, IF NumericAt(cs, i, 2) THEN 2 ELSE 1)

\* re.search(numeric_pattern, date_str)
NumericMatch(cs) ==
    IF {i \in 1..Len(cs) : NumericAt(cs, i, 2) \/ NumericAt(cs, i, 1)} = {} THEN NoMatch
    ELSE NumericFrom(cs, Leftmost({i \in 1..Len(cs) :
                                      NumericAt(cs, i, 2) \/ NumericAt(cs, i, 1)}))

\* the lookup loop over MONTH_ABBREVIATIONS.items(): the number of the first
\* entry, in table order, that is a prefix of month_text or has month_text as
\* a prefix; the empty text stands for month = None
MonthHits(month_text) ==
    {n \in 1..Len(MONTH_ABBREVIATIONS) :
        \/ StartsWith(month_text, Chars(MONTH_ABBREVIATIONS[n][1]))
        \/ StartsWith(Chars(MONTH_ABBREVIATIONS[n][1]), month_text)}

MonthLookup(month_text) ==
    IF MonthHits(month_text) = {} THEN <<>>
    ELSE Chars(MONTH_ABBREVIATIONS[Leftmost(MonthHits(month_text))][2])

\* year = f"20{year_text}" if len(year_text) == 2 else year_text
ExpandYear(year_text) == IF Len(year_text) = 2 THEN <<"2", "0">> \o year_text ELSE year_text

\* the result (lines 224-227) from the month and year found, texts that
\* are empty for None
MonthYearResult(month, year) ==
    IF month # <<>> /\ year # <<>> THEN Join(year) \o "-" \o Join(month) ELSE None

\* Pattern 2 (lines 212-222), tried when Pattern 1 left month as None;
\* year1 is the year Pattern 1 has set
NumericFallback(nu, year1) ==
    IF nu.ok THEN MonthYearResult(ZFill2(nu.month), ExpandYear(nu.year_text))
    ELSE MonthYearResult(<<>>, year1)

\* Pattern 1 (lines 192-210) with its match my, then Pattern 2
NameThenNumeric(cs, my) ==
    IF my.ok /\ MonthLookup(my.month_text) # <<>>
    THEN MonthYearResult(MonthLookup(my.month_text), ExpandYear(my.year_text))
    ELSE NumericFallback(NumericMatch(cs), IF my.ok THEN ExpandYear(my.year_text) ELSE <<>>)

\* Pattern 0 (lines 184-190) with its match iso, then the other patterns
IsoThenOthers(cs, iso) ==
    IF iso.ok THEN Join(iso.year) \o "-" \o Join(ZFill2(iso.month))
    ELSE NameThenNumeric(cs, MonthYearMatch(cs))

\* the body of normalize_month on the stripped text cs
NormalizeStripped(cs) == IsoThenOthers(cs, IsoMatch(cs))

\* normalize_month without the .lower() of the input
normalize_month_nolower(date_string) ==
    IF Strip(Chars(date_string)) = <<>> THEN None
    ELSE NormalizeStripped(Strip(Chars(date_string)))

normalize_month(date_string) ==
    IF Strip(Chars(date_string)) = <<>> THEN None
    ELSE NormalizeStripped(Lower(Strip(Chars(date_string))))

-----------------------------------------------------------------------------
(* Cells of the grid and Python dictionaries                               *)

\* a blank cell (NaN), a text cell and a numeric cell
NaN     == [t |-> "nan", s |-> "", v |-> 0]
Text(s) == [t |-> "str", s |-> s, v |-> 0]
Num(v)  == [t |-> "num", s |-> "", v |-> v]

\* pd.isna / pd.notna
IsNa(cell)  == cell.t = "nan"
NotNa(cell) == cell.t # "nan"

\* amounts are integers counting 10^-Scale currency units
Scale == 3

RECURSIVE Pow10(_)
Pow10(n) == IF n = 0 THEN 1 ELSE 10 * Pow10(n - 1)

One == Pow10(Scale)

MONETARY_DECIMAL_PLACES == 2

Abs(x) == IF x < 0 THEN 0 - x ELSE x

\* decimal digits of a natural number
RECURSIVE NatToStr(_)
NatToStr(n) ==
    LET d == SubSeq("0123456789", (n % 10) + 1, (n % 10) + 1)
    IN  IF n < 10 THEN d ELSE NatToStr(n \div 10) \o d

\* fractional digits of f (0 <= f < 10^w), w digits wide, trailing zeros
\* dropped but for one digit
RECURSIVE FracToStr(_, _)
FracToStr(f, w) ==
    IF w = 1 THEN NatToStr(f)
    ELSE IF f % 10 = 0 THEN FracToStr(f \div 10, w - 1)
    ELSE FracToStr(f \div 10, w - 1) \o NatToStr(f % 10)

\* str(cell) of a non-blank cell; a number prints as a float
Str(cell) ==
    IF cell.t = "str" THEN cell.s
    ELSE (IF cell.v < 0 THEN "-" ELSE "") \o NatToStr(Abs(cell.v) \div One)
         \o "." \o FracToStr(Abs(cell.v) % One, Scale)

\* a dict is the sequence of its <<key, value>> items in insertion order
Keys(d)   == {d[n][1] : n \in DOMAIN d}
Has(d, k) == k \in Keys(d)
Get(d, k) == d[CHOOSE n \in DOMAIN d : d[n][1] = k][2]
Put(d, k, v) ==
    IF Has(d, k) THEN [n \in DOMAIN d |-> IF d[n][1] = k THEN <<k, v>> ELSE d[n]]
    ELSE Append(d, <<k, v>>)
Values(d) == [n \in DOMAIN d |-> d[n][2]]

-----------------------------------------------------------------------------
(* Header/Column Locator and Month-Column Mapper: src/process_uc.py        *)

BUDGET_HEAD_KEYWORDS == <<"budget head", "budget_head", "budget", "head">>
VENDOR_ROLE_KEYWORDS == <<"vendor", "role", "vendor/role", "category", "vendor role">>
COST_HEAD_KEYWORDS   == <<"cost head", "cost_head", "cost", "item", "line item">>
PLAN_KEYWORDS        == <<"plan", "planned", "budget">>
CLAIMS_KEYWORDS      == <<"claim", "actual", "invoice">>
D365_KEYWORDS        == <<"d365", "system", "erp">>

HEADER_SEARCH_ROWS == <<0, 1, 2, 3, 4, 5>>

\* a column that was not found (Python None)
NoCol == -1

\* df.shape and df.iloc[r, c], rows and columns counted from 0
NRows(d) == Len(d)
NCols(d) == IF d = <<>> THEN 0 ELSE Len(d[1])
Cell(d, r, c) == d[r + 1][c + 1]

\* any(keyword in text for keyword in keywords)
AnyKeyword(cs, keywords) ==
    \E n \in DOMAIN keywords : Contains(cs, Chars(keywords[n]))

\* the keyword test on the stripped, lower-cased cell text
HeaderTextMatches(cs, header_keywords) == cs # <<>> /\ AnyKeyword(cs, header_keywords)

\* the cell test of find_column_by_header
HeaderCellMatches(cell, header_keywords) ==
    NotNa(cell) /\ HeaderTextMatches(Lower(Strip(Chars(Str(cell)))), header_keywords)

\* positions <<n, c>> of the search window (n indexes search_rows) that match
HeaderHits(d, header_keywords, search_rows) ==
    {pos \in (DOMAIN search_rows) \X (0..(NCols(d) - 1)) :
        /\ search_rows[pos[1]] < NRows(d)
        /\ HeaderCellMatches(Cell(d, search_rows[pos[1]], pos[2]), header_keywords)}

\* the scan reaches position p before position q
ScanBefore(p, q) == p[1] < q[1] \/ (p[1] = q[1] /\ p[2] <= q[2])

\* the column of the leftmost hit, whatever its row
LeftmostHitCol(hits) ==
    IF hits = {} THEN NoCol ELSE Leftmost({p[2] : p \in hits})

\* the column of the position of hits the scan reaches first
FirstHitCol(hits) ==
    IF hits = {} THEN NoCol ELSE (CHOOSE p \in hits : \A q \in hits : ScanBefore(p, q))[2]

find_column_by_header(d, header_keywords, search_rows) ==
    FirstHitCol(HeaderHits(d, header_keywords, search_rows))

\* month_patterns of find_month_column_map, case-insensitive
MonthPatternShort == <<"jan", "feb", "mar", "apr", "may", "jun",
                       "jul", "aug", "sep", "oct", "nov", "dec">>
MonthPatternLong  == <<"january", "february", "march", "april", "may", "june", "july",
                       "august", "september", "october", "november", "december">>

\* month_match is set: one of the month patterns is found in the cell
HasMonthPattern(cs) ==
    AnyKeyword(Lower(cs), MonthPatternShort) \/ AnyKeyword(Lower(cs), MonthPatternLong)

\* positions where  d365\s+.  matches, case-insensitively
D365Starts(cs) ==
    {i \in 1..Len(cs) :
        /\ i + 5 <= Len(cs)
        /\ Lower(SubSeq(cs, i, i + 3)) = <<"d", "3", "6", "5">>
        /\ IsSpace(cs[i + 4])}

\* first position from k on that holds no space or is the last one
RECURSIVE SkipSpace(_, _)
SkipSpace(cs, k) == IF k < Len(cs) /\ IsSpace(cs[k]) THEN SkipSpace(cs, k + 1) ELSE k

\* re.search(r'd365\s+(.+)', cell_value, re.IGNORECASE): group 1 of the
\* leftmost match, or the empty text when there is no match
D365Rest(cs) ==
    IF D365Starts(cs) = {} THEN <<>>
    ELSE SubSeq(cs, SkipSpace(cs, Leftmost(D365Starts(cs)) + 5), Len(cs))

\* date_part of a cell (lines 201-206)
DatePart(cs) ==
    IF Contains(Lower(cs), Chars("d365")) /\ D365Rest(cs) # <<>>
    THEN Strip(D365Rest(cs)) ELSE cs

\* CellRole testing the keyword lists in the order d365, claims, plan
CellRole_d365first(cs) ==
    IF AnyKeyword(Lower(cs), D365_KEYWORDS) THEN "d365"
    ELSE IF AnyKeyword(Lower(cs), CLAIMS_KEYWORDS) THEN "claims"
    ELSE IF AnyKeyword(Lower(cs), PLAN_KEYWORDS) THEN "plan"
    ELSE ""

\* the role a month header cell is classified to, "" for none (lines 224-234)
CellRole(cs) ==
    IF AnyKeyword(Lower(cs), PLAN_KEYWORDS) THEN "plan"
    ELSE IF AnyKeyword(Lower(cs), CLAIMS_KEYWORDS) THEN "claims"
    ELSE IF AnyKeyword(Lower(cs), D365_KEYWORDS) THEN "d365"
    ELSE ""

\* the entry of a key of month_map that is not there yet
NewMonthEntry == [raw_headers |-> <<>>, cols |-> <<>>]

\* as SetRole, but a role that is already bound keeps its column
SetRoleFirstWins(entry, role, col_idx) ==
    IF role = "" \/ Has(entry.cols, role) THEN entry
    ELSE [entry EXCEPT !.cols = Put(entry.cols, role, col_idx)]

\* month_map[normalized_key][role] = col_idx
SetRole(entry, role, col_idx) ==
    IF role = "" THEN entry
    ELSE [entry EXCEPT !.cols = Put(entry.cols, role, col_idx)]

\* lines 216-234: the entry old of normalized_key gets the raw header and
\* the column of the cell's role
RegisterEntry(old, cs, col_idx) ==
    SetRole([old EXCEPT !.raw_headers = Append(old.raw_headers, Join(cs))],
            CellRole(cs), col_idx)

\* lines 211-234 for a cell whose date was normalized to key
RegisterMonth(mm, key, cs, col_idx) ==
    IF key = None THEN mm
    ELSE Put(mm, key, RegisterEntry(IF Has(mm, key) THEN Get(mm, key) ELSE NewMonthEntry,
                                    cs, col_idx))

\* lines 184-234 for the stripped text cs of a cell
MapCellText(mm, cs, col_idx) ==
    IF cs = <<>> \/ ~HasMonthPattern(cs) THEN mm
    ELSE RegisterMonth(mm, normalize_month(Join(DatePart(cs))), cs, col_idx)

\* the body of the column loop for one cell (lines 181-234)
MapCell(mm, cell, col_idx) ==
    IF IsNa(cell) THEN mm ELSE MapCellText(mm, Strip(Chars(Str(cell))), col_idx)

\* the column loop over one row, from column col_idx on
RECURSIVE MapRow(_, _, _, _)
MapRow(mm, d, row_idx, col_idx) ==
    IF col_idx >= NCols(d) THEN mm
    ELSE MapRow(MapCell(mm, Cell(d, row_idx, col_idx), col_idx), d, row_idx, col_idx + 1)

\* StopOrContinue letting a later row that registered a month replace the map
StopOrContinue_laterrow(mm, rest) == IF rest # <<>> THEN rest ELSE mm

\* lines 236-238: the map of a row ends the search when it is not empty
StopOrContinue(mm, rest) == IF mm # <<>> THEN mm ELSE rest

\* the row loop from the n-th search row on; it stops after the first row
\* that registered a month
RECURSIVE MapRows(_, _, _)
MapRows(d, search_rows, n) ==
    IF n > Len(search_rows) THEN <<>>
    ELSE IF search_rows[n] >= NRows(d) THEN MapRows(d, search_rows, n + 1)
    ELSE StopOrContinue(MapRow(<<>>, d, search_rows[n], 0), MapRows(d, search_rows, n + 1))

find_month_column_map(d, search_rows) == MapRows(d, search_rows, 1)

\* code point order of the characters of a MonthKey
CharOrd(c) == IF c = "-" THEN 45 ELSE 48 + (CHOOSE n \in 0..9 : SubSeq("0123456789", n + 1, n + 1) = c)

\* a < b for Python strings
RECURSIVE StrLess(_, _)
StrLess(a, b) ==
    IF b = <<>> THEN FALSE
    ELSE IF a = <<>> THEN TRUE
    ELSE IF a[1] # b[1] THEN CharOrd(a[1]) < CharOrd(b[1])
    ELSE StrLess(Tail(a), Tail(b))

KeyLess(a, b) == StrLess(Chars(a), Chars(b))

\* sorted(keys)
RECURSIVE Sorted(_)
Sorted(S) ==
    IF S = {} THEN <<>>
    ELSE LET m == CHOOSE a \in S : \A b \in S \ {a} : KeyLess(a, b)
         IN  <<m>> \o Sorted(S \ {m})

-----------------------------------------------------------------------------
(* Variance Aggregation Engine: src/process_uc.py                          *)

\* the multiple of q nearest to a >= 0, counted in q; an exact tie goes to
\* the even one
RoundNat(a, q) ==
    IF 2 * (a % q) > q \/ (2 * (a % q) = q /\ (a \div q) % 2 = 1)
    THEN (a \div q) + 1 ELSE a \div q

RoundTo(x, q) == IF x < 0 THEN 0 - RoundNat(0 - x, q) * q ELSE RoundNat(x, q) * q

\* round(value, MONETARY_DECIMAL_PLACES)
round_monetary(x) == RoundTo(x, Pow10(Scale - MONETARY_DECIMAL_PLACES))

\* value of a run of decimal digits
RECURSIVE DigitsVal(_)
DigitsVal(cs) ==
    IF cs = <<>> THEN 0
    ELSE 10 * DigitsVal(SubSeq(cs, 1, Len(cs) - 1)) + (CharOrd(cs[Len(cs)]) - 48)

\* fractional digits as an amount; digits past the Scale-th are dropped
FracVal(cs) ==
    IF Len(cs) >= Scale THEN DigitsVal(SubSeq(cs, 1, Scale))
    ELSE DigitsVal(cs) * Pow10(Scale - Len(cs))

\* the unsigned part  digits [. digits] , the integer digits ending before e
ParseUnsigned(body, e) ==
    IF body = <<>> THEN [ok |-> FALSE, v |-> 0]
    ELSE IF e > Len(body) THEN [ok |-> TRUE, v |-> DigitsVal(body) * One]
    ELSE IF /\ body[e] = "."
            /\ RunEnd(body, e + 1, "d") > Len(body)
            /\ (e > 1 \/ e < Len(body))
    THEN [ok |-> TRUE,
          v  |-> DigitsVal(SubSeq(body, 1, e - 1)) * One
                 + FracVal(SubSeq(body, e + 1, Len(body)))]
    ELSE [ok |-> FALSE, v |-> 0]

Negate(f) == [ok |-> f.ok, v |-> 0 - f.v]

\* the text with its sign taken off
ParseSigned(cs) ==
    IF cs # <<>> /\ cs[1] = "-" THEN Negate(ParseUnsigned(Tail(cs), RunEnd(Tail(cs), 1, "d")))
    ELSE IF cs # <<>> /\ cs[1] = "+" THEN ParseUnsigned(Tail(cs), RunEnd(Tail(cs), 1, "d"))
    ELSE ParseUnsigned(cs, RunEnd(cs, 1, "d"))

\* float(value_str) for plain decimal texts: [sign] digits [. digits];
\* ok is FALSE where float raises ValueError
ParseFloat(cs) == ParseSigned(Strip(cs))

\* RemoveCommas leaving the text as it is
RemoveCommas_kept(cs) == cs

\* str.replace(',', '')
RECURSIVE RemoveCommas(_)
RemoveCommas(cs) ==
    IF cs = <<>> THEN <<>>
    ELSE IF Head(cs) = "," THEN RemoveCommas(Tail(cs))
    ELSE <<Head(cs)>> \o RemoveCommas(Tail(cs))

\* lines 268-271: the parsed value rounded, 0.0 on a ValueError
RoundedOrZero(f) == IF f.ok THEN round_monetary(f.v) ELSE 0

clean_value(cell) ==
    IF IsNa(cell) THEN 0
    ELSE IF cell.t = "num" THEN round_monetary(cell.v)
    ELSE RoundedOrZero(ParseFloat(RemoveCommas(Chars(cell.s))))

is_non_zero_month(month_data, sparse_enabled) ==
    IF ~sparse_enabled THEN TRUE
    ELSE month_data.planned # 0 \/ month_data.total_spent # 0

ZeroMonth == [planned |-> 0, claims |-> 0, d365 |-> 0, total_spent |-> 0, variance |-> 0]

\* the value read for one role of a month (lines 415-421)
RoleValue(d, i, month_cols, role) ==
    IF Has(month_cols.cols, role) THEN clean_value(Cell(d, i, Get(month_cols.cols, role))) ELSE 0

\* month_data from the three values read and their total (lines 423-433)
MonthData(planned_val, claims_val, d365_val, total_spent) ==
    [planned |-> planned_val, claims |-> claims_val, d365 |-> d365_val,
     total_spent |-> total_spent, variance |-> round_monetary(planned_val - total_spent)]

MonthDataOf(planned_val, claims_val, d365_val) ==
    MonthData(planned_val, claims_val, d365_val, round_monetary(claims_val + d365_val))

\* month_data of row i for one month (lines 413-433)
RowMonthData(d, i, month_cols) ==
    MonthDataOf(RoleValue(d, i, month_cols, "plan"),
                RoleValue(d, i, month_cols, "claims"),
                RoleValue(d, i, month_cols, "d365"))

\* the aggregation of a row's month_data into the line's entry (lines 447-452)
AddMonth(line_month, md) ==
    [planned     |-> round_monetary(line_month.planned + md.planned),
     claims      |-> round_monetary(line_month.claims + md.claims),
     d365        |-> round_monetary(line_month.d365 + md.d365),
     total_spent |-> round_monetary(line_month.total_spent + md.total_spent),
     variance    |-> round_monetary(line_month.variance + md.variance)]

\* lines 435-452: the line's monthly_data after month_data md of month_key
StoreMonth(monthly, month_key, md, sparse_enabled) ==
    IF is_non_zero_month(md, sparse_enabled)
    THEN Put(monthly, month_key,
             AddMonth(IF Has(monthly, month_key) THEN Get(monthly, month_key) ELSE ZeroMonth, md))
    ELSE monthly

\* the month loop of one row over month_names[n..], on the line's monthly_data
RECURSIVE MonthLoop(_, _, _, _, _, _, _)
MonthLoop(monthly, d, i, mmap, mnames, n, sparse_enabled) ==
    IF n > Len(mnames) THEN monthly
    ELSE MonthLoop(StoreMonth(monthly, mnames[n], RowMonthData(d, i, Get(mmap, mnames[n])),
                              sparse_enabled),
                   d, i, mmap, mnames, n + 1, sparse_enabled)

\* RowTotal counting the first month of month_names only
RowTotal_firstmonth(d, i, mmap, mnames, n, field) ==
    IF n > Len(mnames) THEN 0 ELSE RowMonthData(d, i, Get(mmap, mnames[n]))[field]

\* line_total_planned and line_total_spent of row i (lines 409-455)
RECURSIVE RowTotal(_, _, _, _, _, _)
RowTotal(d, i, mmap, mnames, n, field) ==
    IF n > Len(mnames) THEN 0
    ELSE RowMonthData(d, i, Get(mmap, mnames[n]))[field]
         + RowTotal(d, i, mmap, mnames, n + 1, field)

\* SkippedHead comparing the text as it is, without .lower()
SkippedHead_cased(budget_head) ==
    \/ IsNa(budget_head)
    \/ Strip(Chars(Str(budget_head))) = <<>>
    \/ AnyKeyword(Chars(Str(budget_head)), <<"total", "subtotal", "grand">>)

\* the budget_head cell makes the scan skip its row (lines 374-380)
SkippedHead(budget_head) ==
    \/ IsNa(budget_head)
    \/ Strip(Chars(Str(budget_head))) = <<>>
    \/ AnyKeyword(Lower(Chars(Str(budget_head))), <<"total", "subtotal", "grand">>)

\* row i is skipped by the scan
RowSkipped(d, i, bh_col) == SkippedHead(Cell(d, i, bh_col))

\* str(cell).strip()
Stripped(cell) == Join(Strip(Chars(Str(cell))))

\* BudgetLineKey made of the budget head alone
BudgetLineKey_headonly(d, i, bh_col, vr_col) == Stripped(Cell(d, i, bh_col))

\* budget_line_key of row i (lines 383-392)
BudgetLineKey(d, i, bh_col, vr_col) ==
    IF vr_col # NoCol /\ NotNa(Cell(d, i, vr_col))
    THEN Stripped(Cell(d, i, bh_col)) \o " - " \o Stripped(Cell(d, i, vr_col))
    ELSE Stripped(Cell(d, i, bh_col))

\* the record a budget line starts as (lines 398-406)
NewLine(d, i, bh_col, vr_col) ==
    [budget_head          |-> Stripped(Cell(d, i, bh_col)),
     cost_heads           |-> <<>>,
     vendor_role_category |-> IF vr_col # NoCol /\ NotNa(Cell(d, i, vr_col))
                              THEN Stripped(Cell(d, i, vr_col)) ELSE None,
     total_planned        |-> 0,
     total_spent          |-> 0,
     total_variance       |-> 0,
     monthly_data         |-> <<>>]

\* lines 469-471 for cost_head_value, "" standing for None
AppendCostHead(cost_heads, cost_head_value) ==
    IF cost_head_value # "" /\ \A n \in DOMAIN cost_heads : cost_heads[n] # cost_head_value
    THEN Append(cost_heads, cost_head_value) ELSE cost_heads

\* cost_heads after a row with the given cost head cell (lines 394, 469-471)
AddCostHead(cost_heads, cell) ==
    AppendCostHead(cost_heads, IF NotNa(cell) THEN Stripped(cell) ELSE "")

\* WithTotals leaving total_variance as it was
WithTotals_stale(line, tp, ts) ==
    [line EXCEPT !.total_planned = tp, !.total_spent = ts]

\* lines 458-467: the totals of the line after a row
WithTotals(line, tp, ts) ==
    [line EXCEPT !.total_planned = tp, !.total_spent = ts,
                 !.total_variance = round_monetary(tp - ts)]

\* lines 408-471: the line after row i
UpdateLine(line, d, i, ch_col, mmap, mnames, sparse_enabled) ==
    [WithTotals(line,
                round_monetary(line.total_planned + RowTotal(d, i, mmap, mnames, 1, "planned")),
                round_monetary(line.total_spent + RowTotal(d, i, mmap, mnames, 1, "total_spent")))
     EXCEPT !.monthly_data = MonthLoop(line.monthly_data, d, i, mmap, mnames, 1, sparse_enabled),
            !.cost_heads   = AddCostHead(line.cost_heads, Cell(d, i, ch_col))]

\* ProcessKeyedRow starting a new record for every row
ProcessKeyedRow_fresh(lines, key, d, i, bh_col, vr_col, ch_col, mmap, mnames, sparse_enabled) ==
    Put(lines, key,
        UpdateLine(NewLine(d, i, bh_col, vr_col), d, i, ch_col, mmap, mnames, sparse_enabled))

\* lines 396-471 for a row with key budget_line_key
ProcessKeyedRow(lines, key, d, i, bh_col, vr_col, ch_col, mmap, mnames, sparse_enabled) ==
    Put(lines, key,
        UpdateLine(IF Has(lines, key) THEN Get(lines, key) ELSE NewLine(d, i, bh_col, vr_col),
                   d, i, ch_col, mmap, mnames, sparse_enabled))

\* budget_lines after the body of the row loop for row i (lines 372-471)
ProcessRowLines(lines, d, i, bh_col, vr_col, ch_col, mmap, mnames, sparse_enabled) ==
    IF RowSkipped(d, i, bh_col) THEN lines
    ELSE ProcessKeyedRow(lines, BudgetLineKey(d, i, bh_col, vr_col), d, i, bh_col, vr_col,
                         ch_col, mmap, mnames, sparse_enabled)

\* sum of a field of the month entries of the lines that have the month
RECURSIVE SumMonthField(_, _, _)
SumMonthField(line_seq, month_key, field) ==
    IF line_seq = <<>> THEN 0
    ELSE (IF Has(Head(line_seq).monthly_data, month_key)
          THEN Get(Head(line_seq).monthly_data, month_key)[field] ELSE 0)
         + SumMonthField(Tail(line_seq), month_key, field)

\* global_month_data of one month (lines 479-500)
GlobalMonth(lines, month_key) ==
    [planned     |-> round_monetary(SumMonthField(Values(lines), month_key, "planned")),
     claims      |-> round_monetary(SumMonthField(Values(lines), month_key, "claims")),
     d365        |-> round_monetary(SumMonthField(Values(lines), month_key, "d365")),
     total_spent |-> round_monetary(SumMonthField(Values(lines), month_key, "total_spent")),
     variance    |-> round_monetary(SumMonthField(Values(lines), month_key, "variance"))]

\* GlobalItem storing the month whatever its figures
GlobalItem_always(month_key, g, sparse_enabled) ==
    << <<month_key, g>> >>

\* lines 502-504: the item of the month, if it is stored
GlobalItem(month_key, g, sparse_enabled) ==
    IF is_non_zero_month(g, sparse_enabled) THEN << <<month_key, g>> >> ELSE <<>>

\* GlobalMonthlyData keeping of every month the entry of the last line only
RECURSIVE GlobalMonthlyData_lastline(_, _, _, _)
GlobalMonthlyData_lastline(lines, mnames, n, sparse_enabled) ==
    IF n > Len(mnames) THEN <<>>
    ELSE GlobalItem(mnames[n], GlobalMonth(IF lines = <<>> THEN lines ELSE <<lines[Len(lines)]>>, mnames[n]), sparse_enabled)
         \o GlobalMonthlyData_lastline(lines, mnames, n + 1, sparse_enabled)

\* output_data["monthly_data"] built by the loop over month_names[n..] (lines 478-504)
RECURSIVE GlobalMonthlyData(_, _, _, _)
GlobalMonthlyData(lines, mnames, n, sparse_enabled) ==
    IF n > Len(mnames) THEN <<>>
    ELSE GlobalItem(mnames[n], GlobalMonth(lines, mnames[n]), sparse_enabled)
         \o GlobalMonthlyData(lines, mnames, n + 1, sparse_enabled)

\* one cumulative entry
CumulativeEntry(cp, cs) ==
    [cumulative_planned  |-> round_monetary(cp),
     cumulative_spent    |-> round_monetary(cs),
     cumulative_variance |-> round_monetary(cp - cs)]

\* CumulativeData restarting the running sums at every month
RECURSIVE CumulativeData_norun(_, _, _, _, _)
CumulativeData_norun(monthly, mnames, n, cumulative_planned, cumulative_spent) ==
    IF n > Len(mnames) THEN <<>>
    ELSE IF ~Has(monthly, mnames[n])
    THEN CumulativeData_norun(monthly, mnames, n + 1, cumulative_planned, cumulative_spent)
    ELSE << <<mnames[n], CumulativeEntry(Get(monthly, mnames[n]).planned,
                                         Get(monthly, mnames[n]).total_spent)>> >>
         \o CumulativeData_norun(monthly, mnames, n + 1, 0, 0)

\* output_data["cumulative_data"] built by the loop over month_names[n..] (lines 509-522)
RECURSIVE CumulativeData(_, _, _, _, _)
CumulativeData(monthly, mnames, n, cumulative_planned, cumulative_spent) ==
    IF n > Len(mnames) THEN <<>>
    ELSE IF ~Has(monthly, mnames[n])
    THEN CumulativeData(monthly, mnames, n + 1, cumulative_planned, cumulative_spent)
    ELSE << <<mnames[n],
              CumulativeEntry(cumulative_planned + Get(monthly, mnames[n]).planned,
                              cumulative_spent + Get(monthly, mnames[n]).total_spent)>> >>
         \o CumulativeData(monthly, mnames, n + 1,
                           cumulative_planned + Get(monthly, mnames[n]).planned,
                           cumulative_spent + Get(monthly, mnames[n]).total_spent)

\* sum(line[field] for line in budget_lines.values())
RECURSIVE SumLineField(_, _)
SumLineField(line_seq, field) ==
    IF line_seq = <<>> THEN 0
    ELSE Head(line_seq)[field] + SumLineField(Tail(line_seq), field)

\* lines 532-536 from the two rounded sums
TotalsRecord(grand_total_planned, grand_total_spent) ==
    [total_planned  |-> grand_total_planned,
     total_spent    |-> grand_total_spent,
     total_variance |-> round_monetary(grand_total_planned - grand_total_spent)]

\* GrandTotals summing all lines but the first
GrandTotals_skipfirst(lines) ==
    TotalsRecord(round_monetary(SumLineField(SubSeq(Values(lines), 2, Len(lines)), "total_planned")),
                 round_monetary(SumLineField(SubSeq(Values(lines), 2, Len(lines)), "total_spent")))

\* output_data["grand_totals"] (lines 525-536)
GrandTotals(lines) ==
    TotalsRecord(round_monetary(SumLineField(Values(lines), "total_planned")),
                 round_monetary(SumLineField(Values(lines), "total_spent")))

\* ValidationError testing the cost head before the budget head
ValidationError_costfirst(bh_col, ch_col, mmap) ==
    IF ch_col = NoCol THEN "Could not find 'Cost Head' column in UC file"
    ELSE IF bh_col = NoCol THEN "Could not find 'Budget Head' column in UC file"
    ELSE IF mmap = <<>> THEN "Could not find any month columns in UC file"
    ELSE None

\* the validation of the located columns (lines 325-330): the message of the
\* ValueError raised, or None
ValidationError(bh_col, ch_col, mmap) ==
    IF bh_col = NoCol THEN "Could not find 'Budget Head' column in UC file"
    ELSE IF ch_col = NoCol THEN "Could not find 'Cost Head' column in UC file"
    ELSE IF mmap = <<>> THEN "Could not find any month columns in UC file"
    ELSE None

\* HeaderLikeText without the row-number markers
HeaderLikeText_nomarker(cell_text) ==
    \/ Contains(cell_text, Chars("budget"))
    \/ Contains(cell_text, Chars("head"))

\* the test of line 357 on the lower-cased cell text
HeaderLikeText(cell_text) ==
    \/ Contains(cell_text, Chars("budget"))
    \/ Contains(cell_text, Chars("head"))
    \/ Join(cell_text) \in {"s.no", "sr.no", "#"}

\* the text test of the data-start probe (line 357); the cell text is
\* lower-cased but not stripped
LooksLikeHeader(cell) == HeaderLikeText(Lower(Chars(Str(cell))))

\* the probe loop  for i in range(3)  from i on (lines 353-364): the row
\* found, 3 when none is, or an IndexError when the grid ends before
RECURSIVE DataStartProbe(_, _, _)
DataStartProbe(d, bh_col, i) ==
    IF i >= 3 THEN [raised |-> FALSE, row |-> 3]
    ELSE IF i >= NRows(d) THEN [raised |-> TRUE, row |-> i]
    ELSE IF NotNa(Cell(d, i, bh_col)) /\ ~LooksLikeHeader(Cell(d, i, bh_col))
    THEN [raised |-> FALSE, row |-> i]
    ELSE DataStartProbe(d, bh_col, i + 1)

-----------------------------------------------------------------------------
(* process_uc_file as a state machine                                      *)

SPARSE_STORAGE_ENABLED == TRUE

\* the state of the variables a phase has not reached yet
NotLocated ==
    /\ budget_head_col = NoCol
    /\ vendor_role_col = NoCol
    /\ cost_head_col = NoCol
    /\ month_map = <<>>
    /\ month_names = <<>>
    /\ data_start_row = NoCol
    /\ row_i = 0
    /\ output_data = <<>>
    /\ error = None

\* lines 308-322: locate the fixed columns and the month columns
LocateColumns ==
    /\ pc = "start"
    /\ budget_head_col' = find_column_by_header(df, BUDGET_HEAD_KEYWORDS, HEADER_SEARCH_ROWS)
    /\ vendor_role_col' = find_column_by_header(df, VENDOR_ROLE_KEYWORDS, HEADER_SEARCH_ROWS)
    /\ cost_head_col' = find_column_by_header(df, COST_HEAD_KEYWORDS, HEADER_SEARCH_ROWS)
    /\ month_map' = find_month_column_map(df, HEADER_SEARCH_ROWS)
    /\ month_names' = Sorted(Keys(month_map'))
    /\ pc' = "validate"
    /\ UNCHANGED <<df, data_start_row, row_i, output_data, error, nm_text, nm_result>>

\* ValidateColumns initializing the output without processing_metadata
ValidateColumns_nometadata ==
    /\ pc = "validate"
    /\ IF ValidationError(budget_head_col, cost_head_col, month_map) # None
       THEN /\ error' = ValidationError(budget_head_col, cost_head_col, month_map)
            /\ pc' = "raised"
            /\ UNCHANGED output_data
       ELSE /\ output_data' = [monthly_data    |-> <<>>,
                               cumulative_data |-> <<>>,
                               budget_lines    |-> <<>>]
            /\ pc' = "data_start"
            /\ UNCHANGED error
    /\ UNCHANGED <<df, budget_head_col, vendor_role_col, cost_head_col, month_map,
                   month_names, data_start_row, row_i, nm_text, nm_result>>

\* lines 324-350: raise on a missing required column, else initialize the output
ValidateColumns ==
    /\ pc = "validate"
    /\ IF ValidationError(budget_head_col, cost_head_col, month_map) # None
       THEN /\ error' = ValidationError(budget_head_col, cost_head_col, month_map)
            /\ pc' = "raised"
            /\ UNCHANGED output_data
       ELSE /\ output_data' = [monthly_data    |-> <<>>,
                               cumulative_data |-> <<>>,
                               budget_lines    |-> <<>>,
                               processing_metadata |->
                                   [sparse_storage   |-> SPARSE_STORAGE_ENABLED,
                                    decimal_places   |-> MONETARY_DECIMAL_PLACES,
                                    date_format      |-> "YYYY-MM (normalized)",
                                    months_processed |-> Len(month_names)]]
            /\ pc' = "data_start"
            /\ UNCHANGED error
    /\ UNCHANGED <<df, budget_head_col, vendor_role_col, cost_head_col, month_map,
                   month_names, data_start_row, row_i, nm_text, nm_result>>

\* the outcome of the data-start probe
DataStartFound(probe) ==
    IF probe.raised
    THEN /\ error' = "IndexError"
         /\ pc' = "raised"
         /\ UNCHANGED <<data_start_row, row_i>>
    ELSE /\ data_start_row' = probe.row
         /\ row_i' = probe.row
         /\ pc' = IF probe.row < NRows(df) THEN "rows" ELSE "monthly"
         /\ UNCHANGED error

\* lines 352-366: determine the data start row
DetermineDataStart ==
    /\ pc = "data_start"
    /\ DataStartFound(DataStartProbe(df, budget_head_col, 0))
    /\ UNCHANGED <<df, budget_head_col, vendor_role_col, cost_head_col, month_map,
                   month_names, output_data, nm_text, nm_result>>

\* lines 371-471: one iteration of the row loop
ProcessRow ==
    /\ pc = "rows"
    /\ output_data' = [output_data EXCEPT !.budget_lines =
                          ProcessRowLines(@, df, row_i, budget_head_col, vendor_role_col,
                                          cost_head_col, month_map, month_names,
                                          SPARSE_STORAGE_ENABLED)]
    /\ row_i' = row_i + 1
    /\ pc' = IF row_i + 1 < NRows(df) THEN "rows" ELSE "monthly"
    /\ UNCHANGED <<df, budget_head_col, vendor_role_col, cost_head_col, month_map,
                   month_names, data_start_row, error, nm_text, nm_result>>

\* lines 475-504: the global monthly aggregates
MonthlyAggregates ==
    /\ pc = "monthly"
    /\ output_data' = [output_data EXCEPT !.monthly_data =
                          GlobalMonthlyData(output_data.budget_lines, month_names, 1,
                                            SPARSE_STORAGE_ENABLED)]
    /\ pc' = "cumulative"
    /\ UNCHANGED <<df, budget_head_col, vendor_role_col, cost_head_col, month_map,
                   month_names, data_start_row, row_i, error, nm_text, nm_result>>

\* lines 506-522: the global cumulative data
CumulativeAggregates ==
    /\ pc = "cumulative"
    /\ output_data' = [output_data EXCEPT !.cumulative_data =
                          CumulativeData(output_data.monthly_data, month_names, 1, 0, 0)]
    /\ pc' = "totals"
    /\ UNCHANGED <<df, budget_head_col, vendor_role_col, cost_head_col, month_map,
                   month_names, data_start_row, row_i, error, nm_text, nm_result>>

\* lines 524-556: the grand totals; the result is returned
ComputeGrandTotals ==
    /\ pc = "totals"
    /\ output_data' = [k \in DOMAIN output_data \cup {"grand_totals"} |->
                          IF k = "grand_totals" THEN GrandTotals(output_data.budget_lines)
                          ELSE output_data[k]]
    /\ pc' = "done"
    /\ UNCHANGED <<df, budget_head_col, vendor_role_col, cost_head_col, month_map,
                   month_names, data_start_row, row_i, error, nm_text, nm_result>>

Next ==
    \/ LocateColumns
    \/ ValidateColumns
    \/ DetermineDataStart
    \/ ProcessRow
    \/ MonthlyAggregates
    \/ CumulativeAggregates
    \/ ComputeGrandTotals

-----------------------------------------------------------------------------
(* The grids the runs start from                                           *)

\* a row of text cells, "" for a blank cell
TextRow(texts) == [n \in DOMAIN texts |-> IF texts[n] = "" THEN NaN ELSE Text(texts[n])]

\* header rows with every required column
GoodHeaders ==
    { <<"Budget Head", "Vendor/Role", "Cost Head",
        "Plan Apr-25", "Claims Apr-25", "D365 Apr-25", "Plan May-25">>,
      <<"Budget Head", "Vendor/Role", "Cost Head",
        "Plan May-25", "Claims May-25", "Plan Apr-25", "Claims April 2025">>,
      <<"Budget Head", "", "Cost Item",
        "Plan Apr-25", "Plan April-2025", "Claims April 2025", "D365 Apr-25">> }

\* header rows lacking the budget head, the cost head, the months, or all
BadHeaders ==
    { <<"Sr", "Vendor/Role", "Cost Item",
        "Plan Apr-25", "Claims Apr-25", "D365 Apr-25", "Plan May-25">>,
      <<"Budget Head", "Vendor/Role", "Particulars",
        "Plan Apr-25", "Claims Apr-25", "D365 Apr-25", "Plan May-25">>,
      <<"Budget Head", "Vendor/Role", "Cost Head",
        "Plan Q1", "Claims Q1", "D365 Q1", "Plan Q2">>,
      <<"Sr", "Name", "Particulars", "Q1", "Q2", "Q3", "Q4">> }

TitleRow == TextRow(<<"Project UC", "", "", "", "", "", "">>)

\* the amount cells of a data row, columns 3..6
AmountCells ==
    { <<NaN, NaN, NaN, NaN>>,
      <<Num(100 * One), Num(0), Num(0), NaN>>,
      <<NaN, Num(500 * One), Num(0 - 500 * One), NaN>>,
      <<NaN, Num(500 * One), NaN, NaN>>,
      <<NaN, Num(0 - 500 * One), NaN, NaN>>,
      <<Num(0 - 100 * One), NaN, NaN, Num(200 * One)>>,
      <<Text("1,000"), Text("n/a"), NaN, Num(4 * Pow10(Scale - 3))>> }

\* the head cells of a data row, columns 0..2
HeadCells ==
    { TextRow(<<"Salaries", "PM", "Base Pay">>),
      TextRow(<<"Travel", "", "Air">>) }

DataRows ==
    {h \o a : h \in HeadCells, a \in AmountCells}
    \cup { TextRow(<<"Grand Total", "", "">>) \o <<Num(100 * One), Num(500 * One), NaN, NaN>>,
           TextRow(<<"Subtotal - Phase 1", "PM", "Base Pay">>)
               \o <<Num(100 * One), NaN, NaN, Num(200 * One)>>,
           TextRow(<<"", "PM", "Notes">>) \o <<Num(100 * One), Num(500 * One), NaN, NaN>> }

MaxDataRows == 2
MaxTitleRows == 1

\* the sequences over S of length at most n
RECURSIVE SeqsUpTo(_, _)
SeqsUpTo(S, n) ==
    IF n = 0 THEN {<<>>}
    ELSE LET shorter == SeqsUpTo(S, n - 1)
         IN  shorter \cup {Append(q, x) : q \in shorter, x \in S}

Init ==
    /\ \E titles \in SeqsUpTo({TitleRow}, MaxTitleRows) :
          \/ \E h \in GoodHeaders, rows \in SeqsUpTo(DataRows, MaxDataRows) :
                df = titles \o <<TextRow(h)>> \o rows
          \/ \E h \in BadHeaders, r \in DataRows :
                df = titles \o <<TextRow(h), r>>
    /\ pc = "start"
    /\ NotLocated
    /\ nm_text = ""
    /\ nm_result = "idle"

Spec == Init /\ [][Next]_vars

\* month header cells the mapper is run on
MonthHeaderVocab ==
    {"Plan Apr-25", "Plan April-2025", "Claims April 2025", "D365 Apr-25",
     "D365-Apr-25", "Plan May-25", "Notes"}

MapperHeaders ==
    {<<"Budget Head", "Vendor/Role", "Cost Head">> \o m :
        m \in MonthHeaderVocab \X MonthHeaderVocab \X MonthHeaderVocab \X MonthHeaderVocab}

MapperRows ==
    << TextRow(<<"Salaries", "PM", "Base Pay">>)
         \o <<Num(100 * One), Num(40 * One), Num(10 * One), Num(200 * One)>>,
       TextRow(<<"Travel", "", "Air">>)
         \o <<Num(50 * One), NaN, Num(5 * One), NaN>> >>

InitMap ==
    /\ \E titles \in SeqsUpTo({TitleRow}, MaxTitleRows), h \in MapperHeaders :
          df = titles \o <<TextRow(h)>> \o MapperRows
    /\ pc = "start"
    /\ NotLocated
    /\ nm_text = ""
    /\ nm_result = "idle"

SpecMap == InitMap /\ [][Next]_vars

-----------------------------------------------------------------------------
(* Stand-alone calls of normalize_month                                     *)

\* texts the normalizer is called with: the date-normalization test of
\* settings.py and the spec, and labels assembled from parts
NormPrefixes == {"", "Plan ", "D365 ", "D365-", "Claims "}
NormMonths   == {"Apr", "April", "APR", "apr", "Sept", "Mar", "a", "4", "13", ""}
NormSeps     == {"-", " ", "/", "", "'"}
NormYears    == {"25", "2025", "125", "5", ""}

NormTexts ==
    {"Apr-25", "April-25", "April 2025", "4/25", "apr 25", "APR-25", "2025-04",
     "2025-04-01", "2025/4/01", "Mar", "", "  ", "12345-04", "Apr-20255"}
    \cup {p \o m \o s \o y : p \in NormPrefixes, m \in NormMonths,
                              s \in NormSeps, y \in NormYears}

InitNorm ==
    /\ nm_text \in NormTexts
    /\ nm_result = "pending"
    /\ df = <<>>
    /\ pc = "idle"
    /\ NotLocated

\* one call  normalized = normalize_month(date)
NormalizeCall ==
    /\ nm_result = "pending"
    /\ nm_result' = normalize_month(nm_text)
    /\ UNCHANGED <<df, pc, budget_head_col, vendor_role_col, cost_head_col,
                   month_map, month_names, data_start_row, row_i, output_data,
                   error, nm_text>>

NextNorm == NormalizeCall

SpecNorm == InitNorm /\ [][NextNorm]_vars

-----------------------------------------------------------------------------
(* One-line sheets: the April columns in any order, a stray column, and    *)
(* amount cells that are numbers, texts or blank                           *)

AprLabels == {"Plan Apr-25", "Claims Apr-25", "D365 Apr-25"}

AprOrders ==
    {o \in AprLabels \X AprLabels \X AprLabels : {o[1], o[2], o[3]} = AprLabels}

\* header texts that hold a month name but no date, and one that holds neither
StrayLabels == {"Summary", "Plan Mar", "Notes"}

PlanCells   == {Num(100000 * One), Text("100,000"), Text("100000.00")}
ClaimsCells == {Num(40000 * One), Text("40,000"), Text("n/a"), NaN}
D365Cells   == {Num(10000 * One), Text("10,000.5"), Text("-")}

\* the amount cell under a header label
CellUnder(label, p, c, d) ==
    IF label = "Plan Apr-25" THEN p
    ELSE IF label = "Claims Apr-25" THEN c
    ELSE IF label = "D365 Apr-25" THEN d
    ELSE Text("n/a")

\* the month part of a sheet: header labels and the cells under them
MonthPart(order, stray, at) ==
    IF at = "before" THEN <<stray>> \o order
    ELSE IF at = "after" THEN order \o <<stray>>
    ELSE order

OneLineSheet(labels, p, c, d) ==
    << TextRow(<<"Budget Head", "Vendor/Role", "Cost Head">> \o labels),
       TextRow(<<"Salaries", "PM", "Base Pay">>)
         \o [n \in DOMAIN labels |-> CellUnder(labels[n], p, c, d)] >>

InitCells ==
    /\ \E order \in AprOrders, stray \in StrayLabels, at \in {"none", "before", "after"},
          p \in PlanCells, c \in ClaimsCells, d \in D365Cells :
          df = OneLineSheet(MonthPart(order, stray, at), p, c, d)
    /\ pc = "start"
    /\ NotLocated
    /\ nm_text = ""
    /\ nm_result = "idle"

SpecCells == InitCells /\ [][Next]_vars

-----------------------------------------------------------------------------
(* Sheets whose first two rows hold header texts in any of the first       *)
(* three columns                                                           *)

HeadTexts == {"", "Budget Head", "Cost Head", "Item", "Vendor"}

HeadRows == {TextRow(<<a, b, c>>) : a \in HeadTexts, b \in HeadTexts, c \in HeadTexts}

InitLocate ==
    /\ \E r0 \in HeadRows, r1 \in HeadRows :
          df = << r0 \o <<Text("Plan Apr-25")>>,
                  r1 \o <<Num(100 * One)>>,
                  TextRow(<<"Salaries", "PM", "Base Pay">>) \o <<Num(200 * One)>> >>
    /\ pc = "start"
    /\ NotLocated
    /\ nm_text = ""
    /\ nm_result = "idle"

SpecLocate == InitLocate /\ [][Next]_vars

-----------------------------------------------------------------------------
(* Sheets with a row above the header row and varied month header cells    *)

\* cells of the row above the header row, columns 3 and 4
TopCells ==
    {NaN, Text("Summary"), Text("Plan Mar"), Text("Plan Apr-25"), Text("Claims May-25")}

\* cells of the header row, columns 3 and 4
MonthHeaderCells ==
    {Text("Plan Apr-25"), Text("D365 Apr-25"), Text("D365-Apr-25"), Text("Apr-25 D365"),
     Text("Apr-25"), Text("Budget Claims Apr-25"), Text("Actual D365 May-25"),
     Text("Plan D365 May-25"), Text("Summary"), Text("Notes")}

\* first cells of the row above the header row: a title and row-number markers
TopLeftCells == {Text("Project UC"), Text("S.No"), Text("#")}

InitHeaders ==
    /\ \E t0 \in TopLeftCells, t3 \in TopCells, t4 \in TopCells,
          h3 \in MonthHeaderCells, h4 \in MonthHeaderCells, b \in {Text("Salaries"), NaN} :
          df = << <<t0, NaN, NaN, t3, t4>>,
                  TextRow(<<"Budget Head", "Vendor/Role", "Cost Head">>) \o <<h3, h4>>,
                  <<b>> \o TextRow(<<"PM", "Base Pay">>) \o <<Num(100 * One), Num(40 * One)>>,
                  TextRow(<<"Travel", "", "Air">>) \o <<Num(50 * One), Num(5 * One)>> >>
    /\ pc = "start"
    /\ NotLocated
    /\ nm_text = ""
    /\ nm_result = "idle"

SpecHeaders == InitHeaders /\ [][Next]_vars

-----------------------------------------------------------------------------
(* Notions the properties are stated with                                  *)

\* sum of a sequence of amounts
RECURSIVE SeqSum(_)
SeqSum(q) == IF q = <<>> THEN 0 ELSE Head(q) + SeqSum(Tail(q))

\* the run has left the phase named
Located   == pc \notin {"idle", "start"}
Validated == pc \notin {"idle", "start", "validate"}
Aggregated == pc \in {"cumulative", "totals", "done"}

\* find_month_column_map has just returned
MapperReturned == pc = "validate"

\* the chronologically last of a set of MonthKeys
LastKey(keys) == CHOOSE a \in keys : \A b \in keys \ {a} : KeyLess(b, a)

\* the budget lines, as records, and their keys
Lines == Values(output_data.budget_lines)

\* the data rows the scan has processed without skipping them
ProcessedRows ==
    {i \in data_start_row..(row_i - 1) : ~RowSkipped(df, i, budget_head_col)}

\* month_data of processed row i for month m
RowMD(i, m) == RowMonthData(df, i, Get(month_map, m))

\* the row of the grid the month columns were taken from: the first search
\* row with a cell that registers a month
CellRegisters(cell) ==
    /\ NotNa(cell)
    /\ Strip(Chars(Str(cell))) # <<>>
    /\ HasMonthPattern(Strip(Chars(Str(cell))))
    /\ normalize_month(Join(DatePart(Strip(Chars(Str(cell)))))) # None

\* the MonthKey a registering cell is filed under
CellKey(cell) == normalize_month(Join(DatePart(Strip(Chars(Str(cell))))))

RowRegisters(r) == \E c \in 0..(NCols(df) - 1) : CellRegisters(Cell(df, r, c))

ScannedRow ==
    Leftmost({r \in 0..(NRows(df) - 1) :
                 /\ \E n \in DOMAIN HEADER_SEARCH_ROWS : HEADER_SEARCH_ROWS[n] = r
                 /\ RowRegisters(r)})

\* the MonthKey and the role a cell is filed under
CellFiling(cell) ==
    IF CellRegisters(cell)
    THEN [key |-> CellKey(cell), role |-> CellRole(Strip(Chars(Str(cell))))]
    ELSE [key |-> None, role |-> None]

\* the filing of every column of row r
RowFiling(r) == [c \in 0..(NCols(df) - 1) |-> CellFiling(Cell(df, r, c))]

\* the columns filed under key with the role
RoleColumns(filing, key, role) ==
    {c \in DOMAIN filing : filing[c].key = key /\ filing[c].role = role}

\* the column month_map binds the role of key to
BoundColumn(key, role) == Get(Get(month_map, key).cols, role)

\* the calendar month a sample header label spells, "" when it spells none
CalendarMonthOf(label) ==
    CASE label \in {"Plan Apr-25", "Plan April-2025", "Claims April 2025", "Claims Apr-25",
                    "D365 Apr-25", "D365-Apr-25"} -> "2025-04"
      [] label \in {"Plan May-25", "Claims May-25"} -> "2025-05"
      [] OTHER -> ""

\* the header labels filed under a key of month_map
RawHeaders(key) ==
    {Get(month_map, key).raw_headers[n] : n \in DOMAIN Get(month_map, key).raw_headers}

\* two keys stand for one calendar month
SameCalendarMonth(k1, k2) ==
    \E h1 \in RawHeaders(k1), h2 \in RawHeaders(k2) :
        CalendarMonthOf(h1) # "" /\ CalendarMonthOf(h1) = CalendarMonthOf(h2)

\* the processed rows of a budget line, and the line's and the sheet's sum
\* of a field of a month over the processed rows
RowsOfLine(key) ==
    {i \in ProcessedRows : BudgetLineKey(df, i, budget_head_col, vendor_role_col) = key}

SumOverRows(rows, m, field) ==
    SeqSum([n \in 1..NRows(df) |-> IF (n - 1) \in rows THEN RowMD(n - 1, m)[field] ELSE 0])

LineMonthSum(key, m, field) == SumOverRows(RowsOfLine(key), m, field)
SheetMonthSum(m, field) == SumOverRows(ProcessedRows, m, field)

\* the run of the row loop with another sparse-storage setting
RECURSIVE RunRows(_, _, _)
RunRows(lines, i, sparse_enabled) ==
    IF i >= NRows(df) THEN lines
    ELSE RunRows(ProcessRowLines(lines, df, i, budget_head_col, vendor_role_col,
                                 cost_head_col, month_map, month_names, sparse_enabled),
                 i + 1, sparse_enabled)

DenseLines      == RunRows(<<>>, data_start_row, FALSE)
DenseMonthly    == GlobalMonthlyData(DenseLines, month_names, 1, FALSE)
DenseCumulative == CumulativeData(DenseMonthly, month_names, 1, 0, 0)

\* the items of dict a are items of dict b, in the same relative order
RECURSIVE SubDict(_, _)
SubDict(a, b) ==
    IF a = <<>> THEN TRUE
    ELSE IF b = <<>> THEN FALSE
    ELSE IF Head(a) = Head(b) THEN SubDict(Tail(a), Tail(b))
    ELSE SubDict(a, Tail(b))

\* the totals of a line
LineTotals(line) == <<line.total_planned, line.total_spent, line.total_variance>>

\* a text of the form \d{4}-\d{2}
WellFormedKey(cs) ==
    /\ Len(cs) = 7
    /\ \A n \in {1, 2, 3, 4, 6, 7} : IsDigit(cs[n])
    /\ cs[5] = "-"

-----------------------------------------------------------------------------
(* Properties                                                              *)

\* C1: when process_uc_file has completed and the last month of the sheet
\* was not dropped as fully zero, the cumulative_planned and
\* cumulative_spent of the chronologically last month of cumulative_data
\* equal grand_totals.total_planned and grand_totals.total_spent.
TerminalMonthDropped ==
    ~Has(output_data.monthly_data, month_names[Len(month_names)])

LastCumulative ==
    Get(output_data.cumulative_data, LastKey(Keys(output_data.cumulative_data)))

C1_LastCumulativeIsGrandTotal ==
    (pc = "done" /\ output_data.cumulative_data # <<>> /\ ~TerminalMonthDropped)
    => /\ LastCumulative.cumulative_planned = output_data.grand_totals.total_planned
       /\ LastCumulative.cumulative_spent = output_data.grand_totals.total_spent

C1_Witness ==
    /\ pc = "done"
    /\ Len(output_data.cumulative_data) >= 2
    /\ ~TerminalMonthDropped
    /\ output_data.cumulative_data[1][2].cumulative_planned # 0
    /\ output_data.grand_totals.total_planned # 0
    /\ output_data.grand_totals.total_spent # 0

\* C2: grand_totals.total_planned is the sum of total_planned over all
\* records of budget_lines, and grand_totals.total_spent the sum of their
\* total_spent.
C2_GrandTotalsSumLines ==
    pc = "done"
    => /\ output_data.grand_totals.total_planned
            = SeqSum([n \in DOMAIN Lines |-> Lines[n].total_planned])
       /\ output_data.grand_totals.total_spent
            = SeqSum([n \in DOMAIN Lines |-> Lines[n].total_spent])

C2_Witness ==
    /\ pc = "done"
    /\ Len(Lines) >= 2
    /\ \A n \in DOMAIN Lines : Lines[n].total_planned # 0 /\ Lines[n].total_spent # 0

\* C3: for every MonthKey kept in the global monthly_data, its planned,
\* total_spent and variance are the sums, over the budget lines that have the
\* key, of the lines' planned, total_spent and variance for that key.
LineMonthValues(key, field) ==
    [n \in DOMAIN Lines |->
        IF Has(Lines[n].monthly_data, key) THEN Get(Lines[n].monthly_data, key)[field] ELSE 0]

C3_GlobalMonthSumsLines ==
    Aggregated
    => \A key \in Keys(output_data.monthly_data) :
          \A field \in {"planned", "total_spent", "variance"} :
             Get(output_data.monthly_data, key)[field] = SeqSum(LineMonthValues(key, field))

C3_Witness ==
    /\ pc = "done"
    /\ \E key \in Keys(output_data.monthly_data) :
          /\ Cardinality({n \in DOMAIN Lines :
                             /\ Has(Lines[n].monthly_data, key)
                             /\ Get(Lines[n].monthly_data, key).planned # 0}) >= 2
          /\ Get(output_data.monthly_data, key).planned # 0

C5_OneKeyPerCalendarMonth ==
    /\ Located => \A k1, k2 \in Keys(month_map) : SameCalendarMonth(k1, k2) => k1 = k2
    /\ pc = "done"
       => /\ \A k1, k2 \in Keys(output_data.monthly_data) :
                SameCalendarMonth(k1, k2) => k1 = k2
          /\ \A k1, k2 \in Keys(output_data.cumulative_data) :
                SameCalendarMonth(k1, k2) => k1 = k2

\* C6: with sparse storage, a MonthKey whose planned and total_spent are
\* both zero on every budget line is in no line's monthly_data and not in
\* the global monthly_data; a MonthKey with planned 0 and a non-zero
\* total_spent on a line is in that line's monthly_data, and one with
\* planned 0 and a non-zero total_spent over the sheet is in the global
\* monthly_data.
ZeroOnLine(key, m) ==
    LineMonthSum(key, m, "planned") = 0 /\ LineMonthSum(key, m, "total_spent") = 0

SpentOnlyOnLine(key, m) ==
    LineMonthSum(key, m, "planned") = 0 /\ LineMonthSum(key, m, "total_spent") # 0

MonthAbsent(m) ==
    /\ ~Has(output_data.monthly_data, m)
    /\ \A n \in DOMAIN Lines : ~Has(Lines[n].monthly_data, m)

C6_SparseStorage ==
    pc = "done"
    => \A m \in Keys(month_map) :
          /\ (\A key \in Keys(output_data.budget_lines) : ZeroOnLine(key, m))
             => MonthAbsent(m)
          /\ \A key \in Keys(output_data.budget_lines) :
                SpentOnlyOnLine(key, m)
                => Has(Get(output_data.budget_lines, key).monthly_data, m)
          /\ (SheetMonthSum(m, "planned") = 0 /\ SheetMonthSum(m, "total_spent") # 0)
             => Has(output_data.monthly_data, m)

\* C7: the run with sparse storage gives the line totals and grand totals
\* of the run without it, and every month entry it keeps, per line, global
\* and cumulative, is the entry of the run without sparse storage, in the
\* same order.
C7_SparseOnlyOmits ==
    pc = "done"
    => /\ Keys(output_data.budget_lines) = Keys(DenseLines)
       /\ \A key \in Keys(output_data.budget_lines) :
             /\ LineTotals(Get(output_data.budget_lines, key))
                  = LineTotals(Get(DenseLines, key))
             /\ SubDict(Get(output_data.budget_lines, key).monthly_data,
                        Get(DenseLines, key).monthly_data)
       /\ SubDict(output_data.monthly_data, DenseMonthly)
       /\ SubDict(output_data.cumulative_data, DenseCumulative)
       /\ output_data.grand_totals = GrandTotals(DenseLines)

\* C8: normalize_month maps 'Apr-25', 'April 2025', '4/25', '2025-04-01',
\* 'apr 25' and 'APR-25' to '2025-04', and 'Mar' and the empty string to None.
C8_NormalizeExamples ==
    nm_result \notin {"idle", "pending"}
    => /\ nm_text \in {"Apr-25", "April 2025", "4/25", "2025-04-01", "apr 25", "APR-25"}
          => nm_result = "2025-04"
       /\ nm_text \in {"Mar", ""} => nm_result = None

C8_Witness == nm_text = "APR-25" /\ nm_result = "2025-04"

\* C9: every result of normalize_month is None or a text of exactly seven
\* characters, four digits, a hyphen and two digits.
C9_NoneOrMonthKey ==
    nm_result \notin {"idle", "pending"}
    => nm_result = None \/ WellFormedKey(Chars(nm_result))

\* C10: when the budget-head column, the cost-head column or every month
\* column is missing, process_uc_file raises the error naming the first
\* missing item in that order, with no row processed, no output and no
\* result returned.
MissingItemError ==
    IF budget_head_col = NoCol THEN "Could not find 'Budget Head' column in UC file"
    ELSE IF cost_head_col = NoCol THEN "Could not find 'Cost Head' column in UC file"
    ELSE "Could not find any month columns in UC file"

C10_MissingColumnRaises ==
    (Validated /\ (budget_head_col = NoCol \/ cost_head_col = NoCol \/ Keys(month_map) = {}))
    => /\ pc = "raised"
       /\ error = MissingItemError
       /\ output_data = <<>>
       /\ row_i = 0

C10_Witness ==
    /\ pc = "raised"
    /\ budget_head_col = NoCol
    /\ cost_head_col = NoCol
    /\ error = "Could not find 'Budget Head' column in UC file"

\* a budget-head cell that is blank, or names a total in any letter case
BlankOrTotal(cell) ==
    \/ IsNa(cell)
    \/ Strip(Chars(Str(cell))) = <<>>
    \/ \E word \in {"total", "subtotal", "grand"} :
          Contains(Lower(Chars(Str(cell))), Chars(word))

\* the grid d without its rows from index i on with such a budget head
RECURSIVE WithoutSkipped(_, _)
WithoutSkipped(d, i) ==
    IF i >= NRows(d) THEN d
    ELSE IF BlankOrTotal(Cell(d, i, budget_head_col))
    THEN WithoutSkipped(SubSeq(d, 1, i) \o SubSeq(d, i + 2, Len(d)), i)
    ELSE WithoutSkipped(d, i + 1)

\* the row loop from row i on over a grid d, with the located columns
RECURSIVE RunRowsOf(_, _, _)
RunRowsOf(d, lines, i) ==
    IF i >= NRows(d) THEN lines
    ELSE RunRowsOf(d, ProcessRowLines(lines, d, i, budget_head_col, vendor_role_col,
                                      cost_head_col, month_map, month_names,
                                      SPARSE_STORAGE_ENABLED),
                   i + 1)

\* the result of the aggregation over given budget lines
ResultOf(lines) ==
    [monthly_data    |-> GlobalMonthlyData(lines, month_names, 1, SPARSE_STORAGE_ENABLED),
     cumulative_data |-> CumulativeData(GlobalMonthlyData(lines, month_names, 1,
                                                          SPARSE_STORAGE_ENABLED),
                                        month_names, 1, 0, 0),
     budget_lines    |-> lines,
     grand_totals    |-> GrandTotals(lines)]

\* the four aggregates of the returned result
Aggregates ==
    [k \in {"monthly_data", "cumulative_data", "budget_lines", "grand_totals"} |->
        output_data[k]]

\* the row the loop is at has such a budget head
AtSkippedRow == pc = "rows" /\ BlankOrTotal(Cell(df, row_i, budget_head_col))

\* C11: a data row whose budget-head cell is blank or whose budget-head
\* text contains 'total', 'subtotal' or 'grand' in any letter case leaves
\* output_data as it is, and the returned monthly_data, cumulative_data,
\* budget_lines and grand_totals are those of the grid without such rows.
C11_SkippedRowsLeaveNoTrace ==
    /\ [][AtSkippedRow => output_data' = output_data]_vars
    /\ [](pc = "done"
          => Aggregates = ResultOf(RunRowsOf(WithoutSkipped(df, data_start_row),
                                             <<>>, data_start_row)))

C11_Witness ==
    /\ pc = "done"
    /\ NRows(df) = 3
    /\ Cell(df, 1, 0) = Text("Salaries")
    /\ Cell(df, 2, 0) = Text("Subtotal - Phase 1")
    /\ Cell(df, 2, 1) = Text("PM")
    /\ Keys(output_data.budget_lines) = {"Salaries - PM"}
    /\ output_data.grand_totals.total_spent # 0

\* the amount a sample cell stands for: 0 for a blank cell and for a text
\* that is no number
AmountMeant(cell) ==
    CASE cell.t = "num" -> cell.v
      [] cell = Text("100,000") -> 100000 * One
      [] cell = Text("100000.00") -> 100000 * One
      [] cell = Text("40,000") -> 40000 * One
      [] cell = Text("10,000.5") -> 10000 * One + 5 * Pow10(Scale - 1)
      [] OTHER -> 0

\* the amount meant in row i under the column of a role of month m
RoleAmountMeant(i, m, role) ==
    IF Has(Get(month_map, m).cols, role)
    THEN AmountMeant(Cell(df, i, BoundColumn(m, role)))
    ELSE 0

\* the amounts meant by the rows of a line under the columns of a role
LineAmountMeant(key, role) ==
    SeqSum([n \in 1..NRows(df) |->
               IF (n - 1) \in RowsOfLine(key)
               THEN SeqSum([k \in DOMAIN month_names |->
                               RoleAmountMeant(n - 1, month_names[k], role)])
               ELSE 0])

\* the column of the header row with the given label
ColumnOf(label) == CHOOSE c \in 0..(NCols(df) - 1) : Cell(df, 0, c) = Text(label)

NamesKeyword(cell, keywords) ==
    /\ ~IsNa(cell)
    /\ Strip(Chars(Str(cell))) # <<>>
    /\ \E n \in DOMAIN keywords :
          Contains(Lower(Strip(Chars(Str(cell)))), Chars(keywords[n]))

\* the rows of the search window that the grid has
WindowRows ==
    {r \in 0..(NRows(df) - 1) : \E n \in DOMAIN HEADER_SEARCH_ROWS : HEADER_SEARCH_ROWS[n] = r}

\* col is the column of the first cell of the window, row by row and left to
\* right within a row, that names a keyword; NoCol when there is none
FirstInRowMajor(col, keywords) ==
    IF \A r \in WindowRows : \A c \in 0..(NCols(df) - 1) : ~NamesKeyword(Cell(df, r, c), keywords)
    THEN col = NoCol
    ELSE \E r \in WindowRows :
            /\ col \in 0..(NCols(df) - 1)
            /\ NamesKeyword(Cell(df, r, col), keywords)
            /\ \A c \in 0..(col - 1) : ~NamesKeyword(Cell(df, r, c), keywords)
            /\ \A q \in WindowRows :
                  q < r => \A c \in 0..(NCols(df) - 1) : ~NamesKeyword(Cell(df, q, c), keywords)

\* C13: find_column_by_header returns the column of the first matching cell
\* in row-major order, a match in an earlier row winning over any match in
\* a later row, and null when no cell of the window matches.
C13_FirstMatchRowMajor ==
    Located
    => /\ FirstInRowMajor(budget_head_col, BUDGET_HEAD_KEYWORDS)
       /\ FirstInRowMajor(vendor_role_col, VENDOR_ROLE_KEYWORDS)
       /\ FirstInRowMajor(cost_head_col, COST_HEAD_KEYWORDS)

C13_Witness ==
    /\ Located
    /\ Cell(df, 0, 0) = NaN
    /\ Cell(df, 0, 1) = Text("Item")
    /\ Cell(df, 0, 2) = Text("Cost Head")
    /\ Cell(df, 1, 0) = Text("Budget Head")
    /\ Cell(df, 1, 1) = Text("Vendor")
    /\ budget_head_col = 2
    /\ cost_head_col = 1
    /\ vendor_role_col = 1

\* the one-line sheet with plan 100000, claims 40000 and D365 10000 for Apr-25
SampleSheet ==
    /\ NRows(df) = 2
    /\ \A label \in AprLabels : \E c \in 0..(NCols(df) - 1) : Cell(df, 0, c) = Text(label)
    /\ Cell(df, 1, ColumnOf("Plan Apr-25")) = Num(100000 * One)
    /\ Cell(df, 1, ColumnOf("Claims Apr-25")) = Num(40000 * One)
    /\ Cell(df, 1, ColumnOf("D365 Apr-25")) = Num(10000 * One)

SampleMonth ==
    [planned |-> 100000 * One, claims |-> 40000 * One, d365 |-> 10000 * One,
     total_spent |-> 50000 * One, variance |-> 50000 * One]

\* C14: the sheet with one data row ('Salaries', 'PM', 'Base Pay', plan
\* 100000, claims 40000, D365 10000) for Apr-25 gives the single line
\* 'Salaries - PM' with that month entry under '2025-04', totals 100000 /
\* 50000 / 50000, the same grand totals and the same cumulative entry.
C14_EndToEndSample ==
    (pc = "done" /\ SampleSheet)
    => /\ Keys(output_data.budget_lines) = {"Salaries - PM"}
       /\ Len(output_data.budget_lines) = 1
       /\ Get(output_data.budget_lines, "Salaries - PM").monthly_data
            = << <<"2025-04", SampleMonth>> >>
       /\ LineTotals(Get(output_data.budget_lines, "Salaries - PM"))
            = <<100000 * One, 50000 * One, 50000 * One>>
       /\ output_data.grand_totals
            = [total_planned |-> 100000 * One, total_spent |-> 50000 * One,
               total_variance |-> 50000 * One]
       /\ output_data.cumulative_data
            = << <<"2025-04", [cumulative_planned |-> 100000 * One,
                               cumulative_spent |-> 50000 * One,
                               cumulative_variance |-> 50000 * One]>> >>

C14_Witness ==
    /\ pc = "done"
    /\ SampleSheet
    /\ NCols(df) = 6
    /\ Cell(df, 0, 3) = Text("Plan Apr-25")
    /\ Cell(df, 0, 4) = Text("Claims Apr-25")
    /\ Cell(df, 0, 5) = Text("D365 Apr-25")
    /\ output_data.budget_lines[1][1] = "Salaries - PM"

\* C15 as claimed: the returned result has exactly the four top-level keys
\* monthly_data, cumulative_data, budget_lines and grand_totals.
C15_FourTopLevelKeys ==
    pc = "done"
    => DOMAIN output_data = {"monthly_data", "cumulative_data", "budget_lines", "grand_totals"}

\* C15 as amended: the returned result has exactly five top-level keys, the
\* four aggregates and processing_metadata, which holds the sparse-storage
\* flag, the decimal places, the date format and the number of months.
C15_FiveTopLevelKeys ==
    pc = "done"
    => /\ DOMAIN output_data = {"monthly_data", "cumulative_data", "budget_lines",
                                "grand_totals", "processing_metadata"}
       /\ output_data.processing_metadata
            = [sparse_storage   |-> SPARSE_STORAGE_ENABLED,
               decimal_places   |-> MONETARY_DECIMAL_PLACES,
               date_format      |-> "YYYY-MM (normalized)",
               months_processed |-> Cardinality(Keys(month_map))]

C15_Witness ==
    /\ pc = "done"
    /\ "processing_metadata" \in DOMAIN output_data
    /\ output_data.processing_metadata.months_processed = 2
    /\ output_data.budget_lines # <<>>

\* the rows of a line that bring a non-zero planned or total_spent for m
NonZeroRows(key, m) ==
    {i \in RowsOfLine(key) : RowMD(i, m).planned # 0 \/ RowMD(i, m).total_spent # 0}

\* the rows of a line from the one that created its entry for m onward
RowsSinceCreation(key, m) ==
    {i \in RowsOfLine(key) : \E j \in NonZeroRows(key, m) : j <= i}

\* C16: each of planned, claims and d365 of a line's month entry is the sum
\* of that field over all rows of the line from the row that created the
\* entry onward, rows with zero planned and zero total_spent included.
C16_EntryAccumulatesEveryRow ==
    pc = "done"
    => \A key \in Keys(output_data.budget_lines) :
          \A m \in Keys(Get(output_data.budget_lines, key).monthly_data) :
             \A field \in {"planned", "claims", "d365"} :
                Get(Get(output_data.budget_lines, key).monthly_data, m)[field]
                  = SumOverRows(RowsSinceCreation(key, m), m, field)

\* some line has stored an entry for m whose planned or total_spent is not zero
SomeLineNonZero(m) ==
    \E n \in DOMAIN Lines :
        /\ Has(Lines[n].monthly_data, m)
        /\ \/ Get(Lines[n].monthly_data, m).planned # 0
           \/ Get(Lines[n].monthly_data, m).total_spent # 0

\* the lines' entries for m sum to a non-zero planned or total_spent
LinesSumNonZero(m) ==
    \/ SeqSum(LineMonthValues(m, "planned")) # 0
    \/ SeqSum(LineMonthValues(m, "total_spent")) # 0

\* the global entry of m is the field-wise sum of the lines' entries
GlobalIsLinesSum(m) ==
    \A field \in {"planned", "claims", "d365", "total_spent", "variance"} :
        Get(output_data.monthly_data, m)[field] = SeqSum(LineMonthValues(m, field))

\* C17 as claimed: the global monthly_data has a MonthKey exactly when some
\* budget line has a non-zero entry for it, and the global entry is then the
\* field-wise sum of the lines' entries.
C17_KeptIffSomeLineNonZero ==
    Aggregated
    => \A m \in Keys(month_map) :
          /\ Has(output_data.monthly_data, m) <=> SomeLineNonZero(m)
          /\ Has(output_data.monthly_data, m) => GlobalIsLinesSum(m)

\* C17: the global monthly_data has a MonthKey exactly when the lines'
\* entries for it sum to a non-zero planned or a non-zero total_spent, and
\* the global entry is then the field-wise sum of the lines' entries.
C17_KeptIffLinesSumNonZero ==
    Aggregated
    => \A m \in Keys(month_map) :
          /\ Has(output_data.monthly_data, m) <=> LinesSumNonZero(m)
          /\ Has(output_data.monthly_data, m) => GlobalIsLinesSum(m)

\* two lines have non-zero entries for a month that cancel, the month is
\* left out of the global view and another month is kept
C17_Witness ==
    /\ pc = "done"
    /\ \E m \in Keys(month_map) :
          /\ SomeLineNonZero(m)
          /\ ~Has(output_data.monthly_data, m)
    /\ \E m \in Keys(output_data.monthly_data) :
          Cardinality({n \in DOMAIN Lines : Has(Lines[n].monthly_data, m)}) >= 1

\* the number a run of digits writes
DigitValue(c) ==
    CASE c = "0" -> 0 [] c = "1" -> 1 [] c = "2" -> 2 [] c = "3" -> 3 [] c = "4" -> 4
      [] c = "5" -> 5 [] c = "6" -> 6 [] c = "7" -> 7 [] c = "8" -> 8 [] c = "9" -> 9

RECURSIVE NumberOf(_)
NumberOf(cs) ==
    IF cs = <<>> THEN 0 ELSE 10 * NumberOf(SubSeq(cs, 1, Len(cs) - 1)) + DigitValue(cs[Len(cs)])

\* the months from year 0 to the month a key 'year-month' names
HyphenAt(cs) == CHOOSE n \in DOMAIN cs : cs[n] = "-"
MonthsSinceZero(key) ==
    12 * NumberOf(SubSeq(Chars(key), 1, HyphenAt(Chars(key)) - 1))
    + NumberOf(SubSeq(Chars(key), HyphenAt(Chars(key)) + 1, Len(key)))

ChronoAtOrBefore(k, m) == MonthsSinceZero(k) <= MonthsSinceZero(m)

\* the sum of a field of the global entries of the months at or before m
SumUpTo(m, field) ==
    SeqSum([n \in DOMAIN output_data.monthly_data |->
               IF ChronoAtOrBefore(output_data.monthly_data[n][1], m)
               THEN output_data.monthly_data[n][2][field] ELSE 0])

\* C18: cumulative_data has exactly the keys of the global monthly_data, in
\* chronological order, and the entry of a month m holds the sums of planned
\* and of total_spent over the kept months chronologically at or before m and
\* their difference, whatever month map the mapper produced.
C18_CumulativeIsChronological ==
    pc = "done"
    => /\ Keys(output_data.cumulative_data) = Keys(output_data.monthly_data)
       /\ \A a, b \in DOMAIN output_data.cumulative_data :
             a < b => ChronoAtOrBefore(output_data.cumulative_data[a][1],
                                       output_data.cumulative_data[b][1])
       /\ \A m \in Keys(output_data.cumulative_data) :
             /\ Get(output_data.cumulative_data, m).cumulative_planned = SumUpTo(m, "planned")
             /\ Get(output_data.cumulative_data, m).cumulative_spent = SumUpTo(m, "total_spent")
             /\ Get(output_data.cumulative_data, m).cumulative_variance
                  = SumUpTo(m, "planned") - SumUpTo(m, "total_spent")

\* the row loop has started
Scanning == pc \in {"rows", "monthly", "cumulative", "totals", "done"}

\* the sum of a field over the processed rows of a line and all mapped months
LineRowsSum(key, field) ==
    SeqSum([k \in DOMAIN month_names |-> LineMonthSum(key, month_names[k], field)])

\* the sum of a field over the month entries a line has stored
StoredSum(line, field) ==
    SeqSum([n \in DOMAIN line.monthly_data |-> line.monthly_data[n][2][field]])

\* C19: the total_planned of a budget line is the sum of planned over its
\* processed rows and all mapped months, its total_spent the sum of claims
\* plus d365 over the same rows and months, whatever month entries sparse
\* storage kept, and both equal the sums of planned and of total_spent over
\* the month entries the line has stored.
C19_LineTotalsAreRowSums ==
    Scanning
    => \A key \in Keys(output_data.budget_lines) :
          /\ Get(output_data.budget_lines, key).total_planned = LineRowsSum(key, "planned")
          /\ Get(output_data.budget_lines, key).total_spent
               = LineRowsSum(key, "claims") + LineRowsSum(key, "d365")
          /\ Get(output_data.budget_lines, key).total_planned
               = StoredSum(Get(output_data.budget_lines, key), "planned")
          /\ Get(output_data.budget_lines, key).total_spent
               = StoredSum(Get(output_data.budget_lines, key), "total_spent")

\* a line of two rows with non-zero totals and a mapped month it has not stored
C19_Witness ==
    /\ pc = "done"
    /\ \E key \in Keys(output_data.budget_lines) :
          /\ Cardinality(RowsOfLine(key)) >= 2
          /\ Get(output_data.budget_lines, key).total_planned # 0
          /\ Get(output_data.budget_lines, key).total_spent # 0
          /\ \E m \in Keys(month_map) :
                ~Has(Get(output_data.budget_lines, key).monthly_data, m)

\* a month entry whose total_spent and variance follow from its other fields
MonthEntryConsistent(e) ==
    /\ e.total_spent = e.claims + e.d365
    /\ e.variance = e.planned - e.total_spent

\* every entry of a monthly_data dict is consistent
AllMonthsConsistent(monthly) ==
    \A n \in DOMAIN monthly : MonthEntryConsistent(monthly[n][2])

\* C20: after any number of processed rows every budget line has
\* total_variance = total_planned - total_spent, every month entry, of a
\* line or global, has total_spent = claims + d365 and variance = planned -
\* total_spent, every cumulative entry has cumulative_variance =
\* cumulative_planned - cumulative_spent, and grand_totals has
\* total_variance = total_planned - total_spent.
C20_VarianceIsDifference ==
    /\ Scanning
       => /\ \A n \in DOMAIN Lines :
                /\ Lines[n].total_variance = Lines[n].total_planned - Lines[n].total_spent
                /\ AllMonthsConsistent(Lines[n].monthly_data)
          /\ AllMonthsConsistent(output_data.monthly_data)
          /\ \A n \in DOMAIN output_data.cumulative_data :
                output_data.cumulative_data[n][2].cumulative_variance
                  = output_data.cumulative_data[n][2].cumulative_planned
                    - output_data.cumulative_data[n][2].cumulative_spent
    /\ pc = "done"
       => output_data.grand_totals.total_variance
            = output_data.grand_totals.total_planned - output_data.grand_totals.total_spent

\* two rows on one line, with non-zero variances at every tier
C20_Witness ==
    /\ pc = "done"
    /\ \E n \in DOMAIN Lines :
          /\ Lines[n].total_variance # 0
          /\ Lines[n].total_spent # 0
          /\ Lines[n].total_planned # 0
          /\ \E k \in DOMAIN Lines[n].monthly_data :
                Lines[n].monthly_data[k][2].claims # 0
    /\ \E key \in Keys(output_data.budget_lines) : Cardinality(RowsOfLine(key)) >= 2
    /\ \E n \in DOMAIN output_data.monthly_data :
          output_data.monthly_data[n][2].variance # 0
    /\ \E n \in DOMAIN output_data.cumulative_data :
          output_data.cumulative_data[n][2].cumulative_variance # 0
    /\ output_data.grand_totals.total_variance # 0

\* the sample header labels in which a month name can be found, and those
\* of them that also carry a date the normalizer accepts
PatternLabels ==
    {"Summary", "Plan Mar", "Plan Apr-25", "Claims May-25", "D365 Apr-25", "D365-Apr-25",
     "Apr-25 D365", "Apr-25", "Budget Claims Apr-25", "Actual D365 May-25",
     "Plan D365 May-25"}

DatedLabels == PatternLabels \ {"Summary", "Plan Mar"}

\* the rows of the header search window that the grid has
WindowOfGrid == {r \in 0..(NRows(df) - 1) : r <= 5}

\* the first row of the window with a cell whose label is in the set, -1 if none
FirstRowWith(labels) ==
    IF \E r \in WindowOfGrid : \E c \in 0..(NCols(df) - 1) : Cell(df, r, c).s \in labels
    THEN Leftmost({r \in WindowOfGrid :
                      \E c \in 0..(NCols(df) - 1) : Cell(df, r, c).s \in labels})
    ELSE -1

\* all raw headers of month_map, and all columns it binds
MapHeaders == UNION {RawHeaders(key) : key \in Keys(month_map)}
MapColumns ==
    UNION {{BoundColumn(key, role) : role \in Keys(Get(month_map, key).cols)} :
              key \in Keys(month_map)}

\* month_map is made of cells of row r and of no other: every raw header
\* and every bound column is a cell of r with a label of the set, and every
\* such cell of r is among the raw headers
MapTakenFromRow(r, labels) ==
    /\ month_map # <<>> => r # -1
    /\ \A h \in MapHeaders : \E c \in 0..(NCols(df) - 1) : Cell(df, r, c) = Text(h)
    /\ \A c \in MapColumns : Cell(df, r, c).s \in labels
    /\ r # -1 => \A c \in 0..(NCols(df) - 1) :
                    Cell(df, r, c).s \in labels => Cell(df, r, c).s \in MapHeaders

C22_EveryKeyHasRole ==
    Located
    => \A key \in Keys(month_map) :
          \E role \in {"plan", "claims", "d365"} : Has(Get(month_map, key).cols, role)

\* the sample header labels that hold the marker 'D365', and the MonthKey of
\* the text each of them leaves when the marker is taken out
D365Labels ==
    {"D365 Apr-25", "D365-Apr-25", "Apr-25 D365", "Actual D365 May-25", "Plan D365 May-25"}

KeyWithoutMarker(label) ==
    CASE label \in {"D365 Apr-25", "D365-Apr-25", "Apr-25 D365"} -> "2025-04"
      [] label \in {"Actual D365 May-25", "Plan D365 May-25"} -> "2025-05"

\* C23: a header cell that holds the marker 'D365' and a month label is
\* registered under the MonthKey of its text without the marker, wherever
\* the marker stands and whatever separator follows it.
C23_MarkerIsStripped ==
    Located
    => \A key \in Keys(month_map) :
          \A h \in RawHeaders(key) \cap D365Labels : key = KeyWithoutMarker(h)

\* the role the priority plan, claims, d365 gives a sample header label,
\* "" when the label holds no keyword of the three lists
RoleByPriority(label) ==
    CASE label \in {"Plan Apr-25", "Budget Claims Apr-25", "Plan D365 May-25", "Plan Mar"}
           -> "plan"
      [] label \in {"Claims May-25", "Actual D365 May-25"} -> "claims"
      [] label \in {"D365 Apr-25", "D365-Apr-25", "Apr-25 D365"} -> "d365"
      [] OTHER -> ""

\* the (key, role) pairs under which month_map binds column c
BindingsOf(c) ==
    {kr \in Keys(month_map) \X {"plan", "claims", "d365"} :
        Has(Get(month_map, kr[1]).cols, kr[2]) /\ BoundColumn(kr[1], kr[2]) = c}

\* a column to the right of c in row r is registered under key with the role
LaterSameRole(r, c, key, role) ==
    \E c2 \in (c + 1)..(NCols(df) - 1) :
        /\ Cell(df, r, c2).s \in RawHeaders(key)
        /\ RoleByPriority(Cell(df, r, c2).s) = role

\* column c of row r, registered under key, has the one role its label has
\* by priority, unless a later column took that role of the key over
OneRoleByPriority(r, c, key) ==
    /\ \A kr \in BindingsOf(c) : kr = <<key, RoleByPriority(Cell(df, r, c).s)>>
    /\ (RoleByPriority(Cell(df, r, c).s) # ""
        /\ ~LaterSameRole(r, c, key, RoleByPriority(Cell(df, r, c).s)))
       => BindingsOf(c) = {<<key, RoleByPriority(Cell(df, r, c).s)>>}

\* C24: a month header cell gets at most one role, by the priority plan,
\* claims, d365: a cell with a plan keyword is a plan column even if it also
\* holds a claims or D365 keyword, and a cell with a claims keyword and no
\* plan keyword is a claims column even if it also holds a D365 keyword.
C24_RoleByPriority ==
    Located
    => \A r \in {FirstRowWith(DatedLabels)} :
          \A c \in 0..(NCols(df) - 1) :
             \A key \in Keys(month_map) :
                (r # -1 /\ Cell(df, r, c).s \in RawHeaders(key))
                => OneRoleByPriority(r, c, key)

\* a cell with a plan and a claims keyword is bound as plan, and a cell with
\* a claims and a D365 keyword as claims
C24_Witness ==
    /\ Located
    /\ Cell(df, 1, 3) = Text("Budget Claims Apr-25")
    /\ Cell(df, 1, 4) = Text("Actual D365 May-25")
    /\ FirstRowWith(DatedLabels) = 1
    /\ BindingsOf(3) = {<<"2025-04", "plan">>}
    /\ BindingsOf(4) = {<<"2025-05", "claims">>}

\* a key 'YYYY-MM' whose month is one of 01..12
NamesCalendarMonth(cs) ==
    /\ WellFormedKey(cs)
    /\ NumberOf(SubSeq(cs, 6, 7)) \in 1..12

\* C25: every result of normalize_month other than None is a four-digit
\* year, a hyphen and a two-digit month in 01..12.
C25_ResultIsCalendarMonth ==
    nm_result \notin {"idle", "pending", None} => NamesCalendarMonth(Chars(nm_result))

\* the sheet has a vendor/role header, in column 1 of a row of the window
VendorHeaderAt(r) == r \in WindowOfGrid /\ Cell(df, r, 1) = Text("Vendor/Role")
HasVendorHeader == \E r \in WindowOfGrid : VendorHeaderAt(r)

\* the rows the scan has passed whose budget head is not blank and names no total
KeptRows ==
    {i \in data_start_row..(row_i - 1) : ~BlankOrTotal(Cell(df, i, budget_head_col))}

\* the composite key of row i, the sample cells having no outer spaces
CompositeKey(i) ==
    IF HasVendorHeader /\ Cell(df, i, 1).t # "nan"
    THEN Cell(df, i, 0).s \o " - " \o Cell(df, i, 1).s
    ELSE Cell(df, i, 0).s

RowsKeyed(key) == {i \in KeptRows : CompositeKey(i) = key}

\* the record of key is the accumulation of the rows keyed by it
AccumulatesRowsKeyed(key) ==
    /\ RowsKeyed(key) # {}
    /\ Get(output_data.budget_lines, key).total_planned
         = SeqSum([k \in DOMAIN month_names |->
                      SumOverRows(RowsKeyed(key), month_names[k], "planned")])
    /\ Get(output_data.budget_lines, key).total_spent
         = SeqSum([k \in DOMAIN month_names |->
                      SumOverRows(RowsKeyed(key), month_names[k], "total_spent")])
    /\ \A i \in RowsKeyed(key) :
          Cell(df, i, cost_head_col).t = "str"
          => \E n \in DOMAIN Get(output_data.budget_lines, key).cost_heads :
                Get(output_data.budget_lines, key).cost_heads[n] = Cell(df, i, cost_head_col).s

\* C26: the key of a data row is '{budget_head} - {vendor_role}' exactly
\* when a vendor/role column was found and the row's vendor/role cell is not
\* blank, and the budget head alone otherwise; a missing vendor/role column
\* raises no error; budget_lines has one record per distinct key of the rows
\* that are not skipped, and each record accumulates the rows of its key.
C26_OneLinePerCompositeKey ==
    /\ (Located /\ ~HasVendorHeader) => vendor_role_col = NoCol
    /\ (Located /\ ~HasVendorHeader /\ NRows(df) >= 3 /\ budget_head_col # NoCol
        /\ cost_head_col # NoCol /\ month_map # <<>>) => pc # "raised"
    /\ Scanning
       => /\ Keys(output_data.budget_lines) = {CompositeKey(i) : i \in KeptRows}
          /\ Len(output_data.budget_lines) = Cardinality({CompositeKey(i) : i \in KeptRows})
          /\ \A key \in Keys(output_data.budget_lines) : AccumulatesRowsKeyed(key)

\* a row keyed by budget head and vendor/role beside a row keyed by the
\* budget head alone, its vendor/role cell being blank
C26_Witness ==
    /\ pc = "done"
    /\ HasVendorHeader
    /\ data_start_row = 1
    /\ Keys(output_data.budget_lines) = {"Salaries - PM", "Travel"}
    /\ Cardinality(RowsKeyed("Salaries - PM")) = 1
    /\ Get(output_data.budget_lines, "Salaries - PM").total_planned # 0
    /\ Cardinality(RowsKeyed("Travel")) = 1

\* a sample budget-head cell that is not blank and is no header label
QualifiesAsData(cell) ==
    cell.t # "nan" /\ cell.s \notin {"Budget Head", "S.No", "#"}

\* the probed rows, and those of them that qualify
ProbedRows == {i \in 0..2 : i < NRows(df)}
QualifyingRows == {i \in ProbedRows : QualifiesAsData(Cell(df, i, budget_head_col))}

\* C27: data_start_row is the first probed row whose budget-head cell is not
\* blank and does not look like a header label ('budget', 'head', 's.no',
\* '#'), and the fallback index 3 when no probed row qualifies.
C27_DataStartRow ==
    Scanning
    => data_start_row = IF QualifyingRows = {} THEN 3 ELSE Leftmost(QualifyingRows)

\* a row-number marker, the header label and a blank budget head fill the
\* probed rows: the fallback is taken and the scan starts at row 3
C27_Witness ==
    /\ pc = "done"
    /\ Cell(df, 0, 0) = Text("S.No")
    /\ Cell(df, 2, 0) = NaN
    /\ data_start_row = 3
    /\ Keys(output_data.budget_lines) = {"Travel"}

\* the row in which the budget-head header label stands
BudgetHeaderRow ==
    Leftmost({r \in WindowOfGrid : Cell(df, r, budget_head_col) = Text("Budget Head")})

\* C28: no row at or above the row of the budget-head header label is
\* processed as a data row: the scan starts below it, and neither the header
\* row nor a title row above it makes a BudgetLine.
C28_HeaderRowsAreNotData ==
    Scanning
    => /\ data_start_row > BudgetHeaderRow
       /\ \A key \in Keys(output_data.budget_lines) :
             Get(output_data.budget_lines, key).budget_head \notin {"Budget Head", "Project UC"}

\* C29: when the budget-head column, the cost-head column and a month
\* column are found, process_uc_file does not raise, whatever the number of
\* rows of the grid.
C29_NoRaiseWhenColumnsFound ==
    (Located /\ budget_head_col # NoCol /\ cost_head_col # NoCol /\ month_map # <<>>)
    => (pc # "raised" /\ error = None)

\* the columns found for the roles budget_head, vendor_role and cost_head
FoundColumns ==
    [role \in {r \in {"budget_head", "vendor_role", "cost_head"} :
                  (CASE r = "budget_head" -> budget_head_col
                     [] r = "vendor_role" -> vendor_role_col
                     [] r = "cost_head" -> cost_head_col) # NoCol}
       |-> CASE role = "budget_head" -> budget_head_col
             [] role = "vendor_role" -> vendor_role_col
             [] role = "cost_head" -> cost_head_col]

\* C30: the columns resolved for budget_head, vendor_role and cost_head are
\* pairwise different whenever they are found, and none of them is a column
\* the month map binds to a month role.
C30_RoleColumnsAreDistinct ==
    Located
    => /\ \A r1, r2 \in DOMAIN FoundColumns :
             FoundColumns[r1] = FoundColumns[r2] => r1 = r2
       /\ \A r \in DOMAIN FoundColumns : FoundColumns[r] \notin MapColumns

====
